---- MODULE Spec2Model ----
(***************************************************************************)
(* A model of the orchestration core of the WebScribe document pipeline:   *)
(* the categorized retry engine (utils/error_handler.py), the parallel     *)
(* action executor (utils/parallel_action_executor.py), one processing     *)
(* cycle of the main controller (controller/main_controller.py) and the    *)
(* job scheduler (scheduler/job_scheduler.py).                             *)
(*                                                                         *)
(* Each component has its own specification over its own variables; the    *)
(* variables of the other components keep their initial values.            *)
(***************************************************************************)
EXTENDS Integers, Sequences, FiniteSets, TLC

VARIABLES
    \* ---- ErrorHandler (shared by every component) ----
    error_history,   \* ErrorHandler.error_history: sequence of ErrorContext
    \* ---- ErrorHandler.execute_with_retry: one call in progress ----
    rPc,             \* position inside execute_with_retry
    rCategory,       \* the category argument of the call
    attempt,         \* the loop variable of "for attempt in range(max_attempts)"
    last_error,      \* the local last_error (NoError for None)
    rEvents,         \* the sleeps and invocations of the call, in order
    rRaised,         \* the error the call raised to its caller (NoError if none)
    rResult,         \* the value the call returned to its caller (ReturnedNone if none)
    rDelay,          \* the delay of the latest time.sleep, in milliseconds
    rCalls,          \* number of execute_with_retry calls started
    \* ---- ParallelActionExecutor.execute_parallel: one call in progress ----
    exPc,            \* position of the calling thread inside execute_parallel
    exActions,       \* the actions argument: sequence of [name, has_function]
    exIdx,           \* index of the next action of the submit loop
    fut,             \* the future of every action: state, result, raised error
    exResults,       \* the local results list
    exBatches,       \* number of execute_parallel calls started
    exWorkers,       \* ParallelActionExecutor.max_workers, set by the constructor
    \* ---- MainController.run_processing_cycle: one cycle ----
    pc,              \* position of the controller inside run_processing_cycle
    date_folder,     \* the name of the working directory (NoFolder before phase 1)
    scan_results,    \* type folder -> sequence of FileInfo (document files only)
    download_results,\* the DownloadResult list of the download phase
    dlFolder,        \* download phase: index of the type folder being handled
    dlFiles,         \* download phase: the date-filtered files of that folder
    dlIdx,           \* download phase: index of the next file of dlFiles
    localFiles,      \* document files in the type subfolders of the working directory
    docQueue,        \* extract phase: document files still to be processed
    medical_records, \* extract phase: the records extracted so far
    csv,             \* the aggregate CSV of the working directory
    stats,           \* the ProcessingStats of the cycle (NoStats before it is built)
    initial_results, \* _execute_parallel_actions: the results of wave 1
    logFiles,        \* processing_log_*.txt files of the working directory
    remoteCsv,       \* whether the CSV is on the destination server
    emailRead,       \* the ProcessingStats the notification was built from
    emailOutcome,    \* what the notification sender returned ("none" before)
    failureNotices,  \* the outcome of every send_failure_notification call, in order
    backup,          \* the backup location: what it held before, what it holds now
    exc,             \* the exception in flight to the top-level handler
    phases,          \* the phases the cycle has entered
    \* ---- Scheduler: the timer thread and the schedule library's job list ----
    sMode,           \* "cron" if config.poll_cron is set, else "interval"
    running,         \* Scheduler._running
    stop_event,      \* Scheduler._stop_event is set
    thread_ref,      \* Scheduler._thread: the thread start() created last, 0 for None
    threads,         \* per timer thread: position, ticks in the job or left to wait,
                     \* jobs run_pending has still to run, outcome of its latest job
    jobs,            \* the job list of the schedule library: id, tag, interval, ticks
                     \* until next_run
    cronIn,          \* ticks from now to the next time the cron expression matches
    failures,        \* consecutive fires whose job raised, up to MaxFailures
    callPc,          \* the caller of start and stop: "idle", or "joining" inside stop
    joinLeft,        \* ticks left of the join timeout
    calls,           \* the calls of start and stop: what the latest call did, and
                     \* the latest call that did not return at its first check
    env,             \* what the surroundings do at most: ticks a run of the job takes,
                     \* calls of start() that find the scheduler not running
    sinceFire,       \* interval mode: ticks since the latest fire, -1 before the first
    started,         \* interval mode, since the start() that made the scheduler run:
                     \* ticks elapsed, fires, whether a job has taken any time
    \* ---- FTPSManager / SFTPManager / EmailNotifier: one use of a server ----
    cPc,             \* position inside "with manager.connect(config)" or _send_email
    cManager,        \* "ftps", "sftp" or "smtp": whose loop is running
    cAttempt,        \* the loop variable of "for attempt in range(max_retries)"
    sessions,        \* the connections to the remote servers that are open
    held,            \* per manager: the connection its own attribute refers to
    cClient,         \* the local "client" of the context manager (NoSession for None)
    cRaised,         \* the error the use raised to its caller (NoError if none)
    cReturned,       \* what _send_email returned ("none" before it returns)
    cErrors,         \* the errors of the failed attempts of the current use, in order
    cUses,           \* number of uses started
    \* ---- ErrorHandler: statistics, persistent log, cleanup ----
    error_counts,    \* ErrorHandler.error_counts: error key -> count (0 when absent)
    last_error_times,\* ErrorHandler.last_error_times: error key -> timestamp
    errorLog,        \* the file error_context.jsonl: whether it exists, its lines
    tmpLog,          \* the file error_context.tmp
    clock,           \* datetime.now(), in days
    hEnv,            \* the surroundings: whether the disk takes writes, the configured
                     \* error_log_retention_days
    arrived,         \* every ErrorContext handle_error has created, in order
    hPc,             \* position inside cleanup_old_error_logs ("idle" outside)
    hIdx,            \* cleanup: the line of the log the copy loop reads next
    hCall,           \* the latest cleanup call: its argument, its cutoff, its outcome,
                     \* the history and the log it found
    hThreads,        \* per thread inside handle_error: position, context, count read
    \* ---- ErrorHandler._calculate_retry_delay on its own ----
    delayCall,       \* the latest call: its policy, attempt, jitter factor and result
    \* ---- main(): the main thread ----
    mainPc,          \* "none" without main(); "init" up to the initial cycle,
                     \* "cycle" inside it, "alive" in the loop that follows
    scheduled        \* run_scheduled_processing: its position, whether the global
                     \* main_controller is set, what it got from the cycle

retryVars == <<rPc, rCategory, attempt, last_error, rEvents, rRaised, rResult, rDelay,
               rCalls>>
execVars == <<exPc, exActions, exIdx, fut, exResults, exBatches, exWorkers>>
cycleVars == <<pc, date_folder, scan_results, download_results, dlFolder, dlFiles, dlIdx,
               localFiles, docQueue, medical_records, csv, stats, initial_results,
               logFiles, remoteCsv, emailRead, emailOutcome, failureNotices, backup,
               exc, phases>>
schedVars == <<sMode, running, stop_event, thread_ref, threads, jobs, cronIn, failures,
               callPc, joinLeft, calls, env, sinceFire, started>>
remoteVars == <<cPc, cManager, cAttempt, sessions, held, cClient, cRaised, cReturned,
                cErrors, cUses>>
handlerVars == <<error_counts, last_error_times, errorLog, tmpLog, clock, hEnv, arrived,
                 hPc, hIdx, hCall, hThreads>>
delayVars == <<delayCall>>
mainVars == <<mainPc, scheduled>>
vars == <<error_history, retryVars, execVars, cycleVars, schedVars, remoteVars,
          handlerVars, delayVars, mainVars>>

\* what the actions of one component leave alone
nonRetryVars == <<execVars, cycleVars, schedVars, remoteVars, handlerVars, delayVars, mainVars>>
nonExecVars == <<retryVars, cycleVars, schedVars, remoteVars, handlerVars, delayVars, mainVars>>
nonCycleVars == <<retryVars, schedVars, remoteVars, handlerVars, delayVars, mainVars>>
nonSchedVars == <<error_history, retryVars, execVars, cycleVars, remoteVars, handlerVars, delayVars, mainVars>>
nonRemoteVars == <<retryVars, execVars, cycleVars, schedVars, handlerVars, delayVars, mainVars>>
nonHandlerVars == <<retryVars, execVars, cycleVars, schedVars, remoteVars, delayVars, mainVars>>
nonDelayVars == <<error_history, retryVars, execVars, cycleVars, schedVars, remoteVars,
                  handlerVars, mainVars>>
nonMainVars == <<error_history, retryVars, execVars, cycleVars, schedVars, remoteVars,
                 handlerVars, delayVars>>

(***************************************************************************)
(* Bounds of the model.                                                    *)
(***************************************************************************)
MaxRetryCalls == 1   \* execute_with_retry calls explored in one behaviour
MaxBatch == 3        \* actions in a batch given to execute_parallel
MaxScanFiles == 2    \* files the remote type folders hold in total
MaxJobSeconds == 6   \* seconds a run of the scheduled job can take, one timer thread
ShortJobSeconds == 1 \* seconds a run of the scheduled job can take, several threads
MaxThreads == 2      \* timer threads start() creates in one behaviour
MaxFailures == 3     \* consecutive failing fires that are counted
MaxUses == 2         \* uses of a remote server or of the mail server in one behaviour

(***************************************************************************)
(* Error values.  An exception is its type name and its message; a message *)
(* is a sequence of words, and a pattern occurs in a message when it is a  *)
(* contiguous run of the message's (lower-cased) words.                    *)
(***************************************************************************)
NoError == [type |-> "None", msg |-> <<>>]

ErrTimeout    == [type |-> "TimeoutError",        msg |-> <<"timed", "out">>]
ErrPermMsg    == [type |-> "FTPSConnectionError", msg |-> <<"Permission", "denied">>]
ErrNotFound   == [type |-> "FileNotFoundError",   msg |-> <<"no", "such", "file">>]

Errors == {ErrTimeout, ErrPermMsg, ErrNotFound}

\* str.lower() on the words that occur in the messages of the model
LowerWord(w) ==
    CASE w = "Permission"     -> "permission"
      [] w = "Authentication" -> "authentication"
      [] w = "Corrupt"        -> "corrupt"
      [] OTHER                -> w

Lower(msg) == [i \in 1..Len(msg) |-> LowerWord(msg[i])]

\* "pattern in message" on word sequences
Contains(msg, pattern) ==
    \E i \in 0..(Len(msg) - Len(pattern)) :
        \A j \in 1..Len(pattern) : msg[i + j] = pattern[j]

(***************************************************************************)
(* ErrorCategory, ErrorSeverity, RetryConfig.  Delays are in milliseconds. *)
(***************************************************************************)
ErrorCategory ==
    {"configuration", "sftp_connection", "sftp_file_operation", "file_processing",
     "document_parsing", "email_notification", "database_operation",
     "system_resource", "validation", "unknown"}

ErrorSeverity == {"critical", "high", "medium", "low"}

RetryConfig(max_attempts, base_delay) ==
    [max_attempts |-> max_attempts, base_delay |-> base_delay, max_delay |-> 60000,
     exponential_backoff |-> TRUE, jitter |-> TRUE]

\* self.retry_configs.get(category, RetryConfig())
retry_configs(category) ==
    CASE category = "sftp_connection"     -> RetryConfig(5, 2000)
      [] category = "sftp_file_operation" -> RetryConfig(3, 1000)
      [] category = "email_notification"  -> RetryConfig(3, 2000)
      [] category = "database_operation"  -> RetryConfig(3, 500)
      [] category = "file_processing"     -> RetryConfig(2, 1000)
      [] category = "document_parsing"    -> RetryConfig(1, 0)
      [] category = "configuration"       -> RetryConfig(1, 0)
      [] category = "validation"          -> RetryConfig(1, 0)
      [] OTHER                            -> RetryConfig(3, 1000)

non_recoverable_types ==
    {"FileNotFoundError", "PermissionError", "AuthenticationError",
     "SMTPAuthenticationError", "SMTPRecipientsRefused", "ValueError",
     "TypeError", "AttributeError"}

non_recoverable_patterns ==
    {<<"authentication", "failed">>, <<"invalid", "credentials">>,
     <<"permission", "denied">>, <<"file", "not", "found">>,
     <<"invalid", "format">>, <<"malformed">>, <<"corrupt">>}

\* a rule that looks for the patterns in the message as it was written
IsRecoverableError_CaseSensitive(error, category) ==
    IF category \in {"configuration", "validation"} THEN FALSE
    ELSE IF error.type \in non_recoverable_types THEN FALSE
    ELSE IF \E p \in non_recoverable_patterns : Contains(error.msg, p) THEN FALSE
    ELSE TRUE

\* _is_recoverable_error
IsRecoverableError(error, category) ==
    IF category \in {"configuration", "validation"} THEN FALSE
    ELSE IF error.type \in non_recoverable_types THEN FALSE
    ELSE IF \E p \in non_recoverable_patterns : Contains(Lower(error.msg), p) THEN FALSE
    ELSE TRUE

DetermineErrorSeverity(error, category) ==
    IF category = "configuration" THEN "critical"
    ELSE IF error.type \in {"SystemExit", "KeyboardInterrupt", "MemoryError"} THEN "critical"
    ELSE IF category \in {"sftp_connection", "database_operation"} THEN "high"
    ELSE IF Contains(Lower(error.msg), <<"authentication">>)
            \/ Contains(Lower(error.msg), <<"permission">>) THEN "high"
    ELSE IF category \in {"file_processing", "email_notification"} THEN "medium"
    ELSE IF category \in {"document_parsing", "validation"} THEN "low"
    ELSE "medium"

\* 2 ** attempt
RECURSIVE Pow2(_)
Pow2(n) == IF n = 0 THEN 1 ELSE 2 * Pow2(n - 1)

Min(a, b) == IF a <= b THEN a ELSE b

\* The jitter factor (0.5 + random.random() * 0.5), in thousandths: [500, 1000)
JitterFactors == {500, 999}

\* a delay that doubles without a cap
CalculateRetryDelay_Uncapped(n, config, j) ==
    LET delay == IF config.exponential_backoff
                 THEN config.base_delay * Pow2(n)
                 ELSE config.base_delay
    IN  IF config.jitter THEN (delay * j) \div 1000 ELSE delay

\* _calculate_retry_delay, for one value j of the jitter factor
CalculateRetryDelay(n, config, j) ==
    LET delay == IF config.exponential_backoff
                 THEN Min(config.base_delay * Pow2(n), config.max_delay)
                 ELSE config.base_delay
    IN  IF config.jitter THEN (delay * j) \div 1000 ELSE delay

(***************************************************************************)
(* ErrorHandler.handle_error: builds the ErrorContext and appends it to    *)
(* error_history, evicting the oldest entry above the cap.                 *)
(***************************************************************************)
HistoryCap == 1000

ErrorContext(error, category, severity, component, operation, retry_count, max_retries) ==
    [category |-> category, severity |-> severity, component |-> component,
     operation |-> operation, error_message |-> error.msg, exception_type |-> error.type,
     retry_count |-> retry_count, max_retries |-> max_retries,
     is_recoverable |-> IsRecoverableError(error, category)]

\* a store that evicts nothing and turns the newest context away
AppendHistory_DropsNewest(history, context) ==
    IF Len(history) >= HistoryCap THEN history ELSE Append(history, context)

\* "self.error_history.append(context)" and the pop(0) above the cap
AppendHistory(history, context) ==
    LET h == Append(history, context)
    IN  IF Len(h) > HistoryCap THEN Tail(h) ELSE h

\* several handle_error calls in a row
RECURSIVE AppendAll(_, _)
AppendAll(history, contexts) ==
    IF contexts = <<>> THEN history
    ELSE AppendAll(AppendHistory(history, Head(contexts)), Tail(contexts))

(***************************************************************************)
(* ErrorHandler.execute_with_retry.                                        *)
(*                                                                         *)
(* rEvents records what the call did: a "sleep" for every time.sleep, a    *)
(* "call" for every invocation of the wrapped operation, with the          *)
(* ErrorContext that handle_error returned when the invocation raised.     *)
(***************************************************************************)
NoContext == [category |-> "none"]

\* None: what a call that returned nothing, or has not returned, gave back
ReturnedNone == "None"

\* the values the wrapped operation can return
Results == {"listing", "None"}

SleepEvent == [kind |-> "sleep", ok |-> FALSE, context |-> NoContext, result |-> ReturnedNone]
CallEvent(ok, context) ==
    [kind |-> "call", ok |-> ok, context |-> context, result |-> ReturnedNone]
ReturnEvent(result) == [CallEvent(TRUE, NoContext) EXCEPT !.result = result]

\* a handler that keeps the first error of the call
LastError_KeepsFirst(previous, e) == IF previous = NoError THEN e ELSE previous

\* "except Exception as e: last_error = e"
LastError(previous, e) == e

\* a loop that runs one iteration too many
RetryLoopContinues_OffByOne(att, config) == att <= config.max_attempts

\* "for attempt in range(retry_config.max_attempts)": the body runs for att
RetryLoopContinues(att, config) == att < config.max_attempts

\* "if attempt > 0: ... time.sleep(delay)"
SleepsBefore(att) == att > 0

\* a loop that never leaves early
BreakOnContext_Never(context) == FALSE

\* "if not context.is_recoverable: break"
BreakOnContext(context) == ~context.is_recoverable

\* "if attempt == max_attempts - 1: severity = _determine_error_severity(...)
\*  else: severity = LOW"
AttemptSeverity(error, category, att, config) ==
    IF att = config.max_attempts - 1
    THEN DetermineErrorSeverity(error, category)
    ELSE "low"

RetryInit ==
    /\ rPc = "idle"
    /\ rCategory = "unknown"
    /\ attempt = 0
    /\ last_error = NoError
    /\ rEvents = <<>>
    /\ rRaised = NoError
    /\ rResult = ReturnedNone
    /\ rDelay = 0
    /\ rCalls = 0

\* a caller enters execute_with_retry(operation, category, ...)
RetryStart ==
    /\ rPc = "idle"
    /\ rCalls < MaxRetryCalls
    /\ \E category \in ErrorCategory :
          /\ rCategory' = category
          /\ rPc' = IF RetryLoopContinues(0, retry_configs(category))
                    THEN "iter" ELSE "after_loop"
    /\ attempt' = 0
    /\ last_error' = NoError
    /\ rEvents' = <<>>
    /\ rRaised' = NoError
    /\ rResult' = ReturnedNone
    /\ rCalls' = rCalls + 1
    /\ UNCHANGED <<nonRetryVars, error_history, rDelay>>

\* the top of the try block: the backoff sleep of a retry
RetrySleep ==
    /\ rPc = "iter"
    /\ SleepsBefore(attempt)
    /\ \E j \in JitterFactors :
          rDelay' = CalculateRetryDelay(attempt, retry_configs(rCategory), j)
    /\ rEvents' = Append(rEvents, SleepEvent)
    /\ rPc' = "invoke"
    /\ UNCHANGED <<nonRetryVars, error_history, rCategory, attempt, last_error, rRaised, rResult, rCalls>>

\* the first attempt is made without a sleep
RetryNoSleep ==
    /\ rPc = "iter"
    /\ ~SleepsBefore(attempt)
    /\ rPc' = "invoke"
    /\ UNCHANGED <<nonRetryVars, error_history, rCategory, attempt, last_error, rEvents, rRaised,
                   rResult, rDelay, rCalls>>

\* "result = operation()" returns: "return result"
RetryInvokeOk ==
    /\ rPc = "invoke"
    /\ \E result \in Results :
          /\ rEvents' = Append(rEvents, ReturnEvent(result))
          /\ rResult' = result
    /\ rPc' = "returned"
    /\ UNCHANGED <<nonRetryVars, error_history, rCategory, attempt, last_error, rRaised, rDelay, rCalls>>

\* "result = operation()" raises e: the except block
RetryInvokeFail ==
    /\ rPc = "invoke"
    /\ \E e \in Errors :
          LET config == retry_configs(rCategory)
              context == ErrorContext(e, rCategory,
                                      AttemptSeverity(e, rCategory, attempt, config),
                                      "component", "operation",
                                      attempt, config.max_attempts - 1)
          IN  /\ last_error' = LastError(last_error, e)
              /\ error_history' = AppendHistory(error_history, context)
              /\ rEvents' = Append(rEvents, CallEvent(FALSE, context))
              /\ IF BreakOnContext(context)
                 THEN /\ rPc' = "after_loop"
                      /\ attempt' = attempt
                 ELSE /\ attempt' = attempt + 1
                      /\ rPc' = IF RetryLoopContinues(attempt + 1, config)
                                THEN "iter" ELSE "after_loop"
    /\ UNCHANGED <<nonRetryVars, rCategory, rRaised, rResult, rDelay, rCalls>>

\* after the loop: "if last_error: raise last_error" (else the call returns None)
RetryAfterLoop ==
    /\ rPc = "after_loop"
    /\ IF last_error # NoError
       THEN rPc' = "raised" /\ rRaised' = last_error /\ rResult' = ReturnedNone
       ELSE rPc' = "returned" /\ rRaised' = NoError /\ rResult' = ReturnedNone
    /\ UNCHANGED <<nonRetryVars, error_history, rCategory, attempt, last_error, rEvents, rDelay, rCalls>>

\* the caller has the outcome; the handler is free for the next call
RetryFinish ==
    /\ rPc \in {"returned", "raised"}
    /\ rPc' = "idle"
    /\ UNCHANGED <<nonRetryVars, error_history, rCategory, attempt, last_error, rEvents, rRaised,
                   rResult, rDelay, rCalls>>

RetryNext ==
    \/ RetryStart
    \/ RetrySleep
    \/ RetryNoSleep
    \/ RetryInvokeOk
    \/ RetryInvokeFail
    \/ RetryAfterLoop
    \/ RetryFinish

(***************************************************************************)
(* ParallelActionExecutor.                                                 *)
(*                                                                         *)
(* The calling thread submits every action of the batch to a pool of       *)
(* max_workers threads, then collects the futures as they complete.  A     *)
(* worker runs _execute_action: the action's function, then the            *)
(* ActionResult.  The elapsed duration of an ActionResult is wall-clock    *)
(* time and is left out of the model.                                      *)
(***************************************************************************)
max_workers == 3

NoMessage == <<>>

ActionResult(action_name, success, error_message) ==
    [action_name |-> action_name, success |-> success, error_message |-> error_message]

NoResult == [action_name |-> "", success |-> FALSE, error_message |-> NoMessage]

Action(name, has_function) == [name |-> name, has_function |-> has_function]

Future(state, result, raised) == [state |-> state, result |-> result, raised |-> raised]

\* "if not action_func": the result of an action without a function
NoFunctionResult(action_name) ==
    ActionResult(action_name, FALSE, <<"No", "function", "provided">>)

\* an except branch that reports the failed action as a success
FailedResult_AsSuccess(action_name, error) == ActionResult(action_name, TRUE, NoMessage)

\* _execute_action, except branch: success=False, error_message=str(e)
FailedResult(action_name, error) == ActionResult(action_name, FALSE, error.msg)

\* _execute_action, try branch
SucceededResult(action_name) == ActionResult(action_name, TRUE, NoMessage)

\* the handle_error call of _execute_action's except branch
ActionErrorContext(action_name, error) ==
    ErrorContext(error, "system_resource", "medium", "ParallelActionExecutor",
                 <<"execute_", action_name>>, 0, 0)

RunningFutures == {i \in DOMAIN fut : fut[i].state = "running"}

\* ParallelActionExecutor(max_workers=w), before any call
ExecConstructed(w) ==
    /\ exPc = "idle"
    /\ exActions = <<>>
    /\ exIdx = 1
    /\ fut = <<>>
    /\ exResults = <<>>
    /\ exBatches = 0
    /\ exWorkers = w

\* the executor of the controller
ExecInit == ExecConstructed(max_workers)

\* entry of execute_parallel(actions): "if not actions: return []"
ExecEnter(actions) ==
    /\ exPc = "idle"
    /\ exActions' = actions
    /\ exIdx' = 1
    /\ fut' = [i \in 1..Len(actions) |-> Future("unsubmitted", NoResult, NoError)]
    /\ exResults' = <<>>
    /\ exPc' = IF actions = <<>> THEN "returned" ELSE "submitting"

\* one iteration of the submit loop
ExecSubmit ==
    /\ exPc = "submitting"
    /\ LET action == exActions[exIdx]
       IN  IF ~action.has_function
           THEN /\ exResults' = Append(exResults, NoFunctionResult(action.name))
                /\ fut' = [fut EXCEPT ![exIdx].state = "nofunc"]
           ELSE /\ exResults' = exResults
                /\ fut' = [fut EXCEPT ![exIdx].state = "pending"]
    /\ exIdx' = exIdx + 1
    /\ exPc' = IF exIdx = Len(exActions) THEN "collecting" ELSE "submitting"
    /\ UNCHANGED <<error_history, exActions, exBatches, exWorkers>>

\* a pool that starts a thread for every action submitted
ExecWorkerStart_NoLimit(i) ==
    /\ fut[i].state = "pending"
    /\ fut' = [fut EXCEPT ![i].state = "running"]
    /\ UNCHANGED <<error_history, exPc, exActions, exIdx, exResults, exBatches, exWorkers>>

\* a free worker thread takes a pending action
ExecWorkerStart(i) ==
    /\ fut[i].state = "pending"
    /\ Cardinality(RunningFutures) < exWorkers
    /\ fut' = [fut EXCEPT ![i].state = "running"]
    /\ UNCHANGED <<error_history, exPc, exActions, exIdx, exResults, exBatches, exWorkers>>

\* the rest of _execute_action once the action's function has returned
\* (error = NoError) or raised error; contexts are the handle_error calls
\* the function made itself
FinishFuture(i, error, contexts) ==
    /\ fut[i].state = "running"
    /\ IF error = NoError
       THEN /\ fut' = [fut EXCEPT ![i] =
                         Future("finished", SucceededResult(exActions[i].name), NoError)]
            /\ error_history' = AppendAll(error_history, contexts)
       ELSE /\ fut' = [fut EXCEPT ![i] =
                         Future("finished", FailedResult(exActions[i].name, error), error)]
            /\ error_history' =
                  AppendAll(error_history,
                            contexts \o <<ActionErrorContext(exActions[i].name, error)>>)
    /\ UNCHANGED <<exPc, exActions, exIdx, exResults, exBatches, exWorkers>>

\* "for future in as_completed(...)": the caller takes a completed future
ExecCollect(i) ==
    /\ exPc = "collecting"
    /\ fut[i].state = "finished"
    /\ exResults' = Append(exResults, fut[i].result)
    /\ fut' = [fut EXCEPT ![i].state = "collected"]
    /\ UNCHANGED <<error_history, exPc, exActions, exIdx, exBatches, exWorkers>>

\* every future was collected: the pool shuts down and the results return
ExecReturn ==
    /\ exPc = "collecting"
    /\ \A i \in DOMAIN fut : fut[i].state \in {"collected", "nofunc"}
    /\ exPc' = "returned"
    /\ UNCHANGED <<error_history, exActions, exIdx, fut, exResults, exBatches, exWorkers>>

(***************************************************************************)
(* execute_parallel on its own: one call with a batch of up to MaxBatch    *)
(* actions named A, B, C, ... whose functions return or raise.             *)
(***************************************************************************)
BatchNames == <<"A", "B", "C", "D", "E">>

Batches ==
    UNION {[1..n -> BOOLEAN] : n \in 0..MaxBatch}

ExecBatchStart ==
    /\ exBatches = 0
    /\ \E b \in Batches :
          ExecEnter([i \in 1..Len(b) |-> Action(BatchNames[i], b[i])])
    /\ exBatches' = exBatches + 1
    /\ exWorkers' = exWorkers
    /\ UNCHANGED <<error_history, nonExecVars>>

ExecBatchSubmit == ExecSubmit /\ UNCHANGED nonExecVars

ExecBatchWorkerStart == \E i \in DOMAIN fut : ExecWorkerStart(i) /\ UNCHANGED nonExecVars

\* the function of a batch action returns, or raises one of ExecErrors
ExecErrors == {ErrTimeout, ErrPermMsg}

ExecBatchWorkerFinish ==
    \E i \in DOMAIN fut : \E e \in ExecErrors \cup {NoError} :
        FinishFuture(i, e, <<>>) /\ UNCHANGED nonExecVars

ExecBatchCollect == \E i \in DOMAIN fut : ExecCollect(i) /\ UNCHANGED nonExecVars

ExecBatchReturn == ExecReturn /\ UNCHANGED nonExecVars

\* the caller has the list
ExecBatchDone ==
    /\ exPc = "returned"
    /\ exPc' = "idle"
    /\ UNCHANGED <<error_history, exActions, exIdx, fut, exResults, exBatches, exWorkers, nonExecVars>>

ExecNext ==
    \/ ExecBatchStart
    \/ ExecBatchSubmit
    \/ ExecBatchWorkerStart
    \/ ExecBatchWorkerFinish
    \/ ExecBatchCollect
    \/ ExecBatchReturn
    \/ ExecBatchDone

(***************************************************************************)
(* MainController: the data of one processing cycle.                       *)
(*                                                                         *)
(* A file name is its stem and its extension.  Sizes and wall-clock        *)
(* timestamps (FileInfo.size, start_time, end_time) are left out.          *)
(***************************************************************************)
TypeFolders == <<"type3", "type6">>

Yesterday == 1
Today == 2
Dates == {Yesterday, Today}

FileName(stem, ext) == [stem |-> stem, ext |-> ext]
FileInfo(filename, mtime) == [filename |-> filename, mtime |-> mtime]

\* str.lower() on the extensions of the model
LowerExt(ext) ==
    CASE ext = ".DOCX" -> ".docx"
      [] ext = ".DOC"  -> ".doc"
      [] OTHER         -> ext

\* TypeFolderScanner.filter_document_files: the test on one file
IsDocumentFile(file_info) == LowerExt(file_info.filename.ext) \in {".doc", ".docx"}

FilterDocumentFiles(files) == SelectSeq(files, IsDocumentFile)

\* "doc_file.suffix.lower() in ['.doc', '.docx']" of the extract phase
HasDocumentSuffix(filename) == LowerExt(filename.ext) \in {".doc", ".docx"}

\* DateFolderManager.get_folder_name: date.strftime("%Y-%m-%d")
FolderName(date) == <<"%Y-%m-%d", date>>

NoFolder == <<"none">>
NoDate == 0

\* datetime.strptime(folder_name, '%Y-%m-%d').date(), None on ValueError
ParseFolderDate(folder_name) ==
    IF Len(folder_name) = 2 /\ folder_name[1] = "%Y-%m-%d" THEN folder_name[2] ELSE NoDate

\* a filter that keeps every file, whatever its date
DateFiltered_KeepAll(files, target_date) == files

\* "if target_date: ... if file_date == target_date: filtered_files.append"
DateFiltered(files, target_date) ==
    IF target_date # NoDate
    THEN LET Matches(file_info) == file_info.mtime = target_date
         IN  SelectSeq(files, Matches)
    ELSE files

DownloadResult(type_folder, filename, success, error_message) ==
    [type_folder |-> type_folder, filename |-> filename, success |-> success,
     error_message |-> error_message]

\* what the remote type folders can hold: a text file and a document of
\* today, and a document of yesterday
FileKinds ==
    {[ext |-> ".txt", mtime |-> Today], [ext |-> ".DOCX", mtime |-> Today],
     [ext |-> ".doc", mtime |-> Yesterday]}

Stems == <<"f1", "f2", "f3", "f4">>

KindSeqs == UNION {[1..n -> FileKinds] : n \in 0..MaxScanFiles}

RECURSIVE TotalFiles(_, _)
TotalFiles(by_folder, k) ==
    IF k = 0 THEN 0 ELSE Len(by_folder[k]) + TotalFiles(by_folder, k - 1)

\* the listings of the type folders, MaxScanFiles files at most in total
Listings == {l \in [DOMAIN TypeFolders -> KindSeqs] : TotalFiles(l, Len(TypeFolders)) <= MaxScanFiles}

ListedFiles(kinds) ==
    [i \in 1..Len(kinds) |-> FileInfo(FileName(Stems[i], kinds[i].ext), kinds[i].mtime)]

LocalFile(type_folder, filename) == [type_folder |-> type_folder, filename |-> filename]

\* document files an earlier cycle of the same date can have left behind
LeftOverFiles == {LocalFile("type3", FileName("f1", ".DOCX"))}

Index(seq, x) == CHOOSE i \in DOMAIN seq : seq[i] = x

Extensions == <<".doc", ".DOC", ".docx", ".DOCX", ".txt">>

\* the place of a file in the walk of the working directory: by type
\* subfolder, then by name
WalkRank(f) ==
    100 * Index(TypeFolders, f.type_folder) + 10 * Index(Stems, f.filename.stem)
        + Index(Extensions, f.filename.ext)

\* the order in which the extract phase walks the working directory
RECURSIVE FilesInOrder(_)
FilesInOrder(files) ==
    IF files = {} THEN <<>>
    ELSE LET first == CHOOSE f \in files : \A g \in files : WalkRank(f) <= WalkRank(g)
         IN  <<first>> \o FilesInOrder(files \ {first})

\* a MedicalRecord, by the file it was parsed from; the parsed fields are
\* left out
MedicalRecord(source_file) == [source_file |-> source_file]

NoCsv == [exists |-> FALSE, header |-> FALSE, rows |-> <<>>]

\* a writer that leaves no file when there is no record
WrittenCsv_NothingWhenEmpty(records) ==
    IF records = <<>> THEN NoCsv
    ELSE [exists |-> TRUE, header |-> TRUE,
          rows |-> [i \in 1..Len(records) |-> records[i].source_file]]

\* the CSV written by _process_documents_and_generate_csv: the header, and
\* one row per record
WrittenCsv(records) ==
    [exists |-> TRUE, header |-> TRUE,
     rows |-> [i \in 1..Len(records) |-> records[i].source_file]]

\* date_folder.name.replace('-', '') + "_output.csv"
CsvFilename(folder_name) == <<folder_name, "_output.csv">>

UploadStatus(status, detail) == [status |-> status, detail |-> detail]

NoStats == [date_folder |-> NoFolder]

\* _build_empty_stats
BuildEmptyStats(folder_name) ==
    [date_folder |-> folder_name,
     type_folders_scanned |-> <<>>,
     files_downloaded |-> <<>>,
     documents_processed |-> 0,
     records_extracted |-> 0,
     csv_filename |-> <<>>,
     csv_size |-> 0,
     upload_status |-> UploadStatus("N/A - No files", NoMessage),
     log_filename |-> "",
     email_sent |-> FALSE,
     errors |-> <<>>]

DownloadErrorLine(download) ==
    [type_folder |-> download.type_folder, filename |-> download.filename,
     error_message |-> download.error_message]

\* "if not download.success and download.error_message"
IsReportedFailure(download) == ~download.success /\ download.error_message # NoMessage

\* _build_processing_stats
BuildProcessingStats(folder_name, scan, downloads, records, csv_file) ==
    LET failed == SelectSeq(downloads, IsReportedFailure)
    IN  [date_folder |-> folder_name,
         type_folders_scanned |-> [k \in DOMAIN scan |-> Len(scan[k])],
         files_downloaded |-> downloads,
         documents_processed |-> Len(downloads),
         records_extracted |-> Len(records),
         csv_filename |-> CsvFilename(folder_name),
         csv_size |-> IF csv_file.exists THEN 1 + Len(csv_file.rows) ELSE 0,
         upload_status |-> UploadStatus("Pending", NoMessage),
         log_filename |-> "",
         email_sent |-> FALSE,
         errors |-> [i \in 1..Len(failed) |-> DownloadErrorLine(failed[i])]]

\* _get_upload_status
RECURSIVE GetUploadStatus(_)
GetUploadStatus(action_results) ==
    IF action_results = <<>> THEN UploadStatus("UNKNOWN", NoMessage)
    ELSE IF Head(action_results).action_name = "upload_csv"
         THEN IF Head(action_results).success
              THEN UploadStatus("SUCCESS", NoMessage)
              ELSE UploadStatus("FAILED", Head(action_results).error_message)
         ELSE GetUploadStatus(Tail(action_results))

\* _get_email_status
RECURSIVE GetEmailStatus(_)
GetEmailStatus(action_results) ==
    IF action_results = <<>> THEN FALSE
    ELSE IF Head(action_results).action_name = "send_email"
         THEN Head(action_results).success
         ELSE GetEmailStatus(Tail(action_results))

\* _get_log_filename: the values it can return; the first file that
\* date_folder.glob("processing_log_*.txt") yields is any log file there
GetLogFilenames(action_results, log_files) ==
    IF /\ \E j \in 1..Len(action_results) :
             action_results[j].action_name = "create_log" /\ action_results[j].success
       /\ log_files # {}
    THEN log_files
    ELSE {""}

\* the three ErrorContexts of a connection loop whose attempts all failed
ConnectFailureContexts(component, operation) ==
    [n \in 1..3 |->
        ErrorContext(ErrTimeout, "sftp_connection", IF n = 3 THEN "high" ELSE "medium",
                     component, operation, n - 1, 2)]

FTPSConnectionError ==
    [type |-> "FTPSConnectionError", msg |-> <<"Failed", "to", "connect", "to", "FTPS", "server">>]
SFTPConnectionError ==
    [type |-> "SFTPConnectionError", msg |-> <<"Failed", "to", "connect", "to", "SFTP", "server">>]
SFTPFileError == [type |-> "SFTPFileError", msg |-> <<"Failed", "to", "upload">>]
FTPSFileError == [type |-> "FTPSFileError", msg |-> <<"Failed", "to", "download">>]
FTPSListError == [type |-> "FTPSFileError", msg |-> <<"Failed", "to", "list", "files">>]
OSError == [type |-> "OSError", msg |-> <<"No", "space", "left", "on", "device">>]
ParseError == [type |-> "Exception", msg |-> <<"Could", "not", "extract", "text">>]

(***************************************************************************)
(* MainController.run_processing_cycle.                                    *)
(***************************************************************************)
dlVars == <<download_results, dlFolder, dlFiles, dlIdx>>
extractVars == <<docQueue, medical_records, csv>>
publishVars == <<initial_results, logFiles, remoteCsv, emailRead, emailOutcome>>
endVars == <<failureNotices, backup>>

\* the backup location before the archive step has looked at it
NotBackedUp == [prior |-> "unread", now |-> "unread"]

CycleInit ==
    /\ pc = "start"
    /\ date_folder = NoFolder
    /\ scan_results = [k \in DOMAIN TypeFolders |-> <<>>]
    /\ download_results = <<>>
    /\ dlFolder = 0
    /\ dlFiles = <<>>
    /\ dlIdx = 0
    /\ localFiles = {}
    /\ docQueue = <<>>
    /\ medical_records = <<>>
    /\ csv = NoCsv
    /\ stats = NoStats
    /\ initial_results = <<>>
    /\ logFiles = {}
    /\ remoteCsv = FALSE
    /\ emailRead = NoStats
    /\ emailOutcome = "none"
    /\ failureNotices = <<>>
    /\ backup = NotBackedUp
    /\ exc = NoError
    /\ phases = {}

\* an exception leaves the phase: its handle_error calls, then the
\* "except Exception as e" of run_processing_cycle
RaiseFromPhase(error, contexts) ==
    /\ pc' = "except"
    /\ exc' = error
    /\ error_history' = AppendAll(error_history, contexts)

\* log files an earlier cycle of the same date can have left behind
LeftOverLogs == {"processing_log_old.txt"}

\* Step 1: _create_date_folder.  mkdir(exist_ok=True): the working directory
\* of the date can hold what an earlier cycle of that date left in it.
CreateDateFolderOk ==
    /\ pc = "start"
    /\ \E date \in Dates : date_folder' = FolderName(date)
    /\ localFiles' \in SUBSET LeftOverFiles
    /\ logFiles' \in SUBSET LeftOverLogs
    /\ pc' = "scan"
    /\ UNCHANGED <<error_history, execVars, scan_results, dlVars, extractVars, stats,
                   initial_results, remoteCsv, emailRead, emailOutcome, endVars,
                   exc, phases, nonCycleVars>>

CreateDateFolderFail ==
    /\ pc = "start"
    /\ RaiseFromPhase(OSError,
          <<ErrorContext(OSError, "system_resource", "high", "DateFolderManager",
                         "create_date_folder", 0, 0),
            ErrorContext(OSError, "system_resource", "critical", "MainController",
                         "create_date_folder", 0, 0)>>)
    /\ UNCHANGED <<execVars, date_folder, scan_results, dlVars, localFiles, extractVars,
                   stats, publishVars, endVars, phases, nonCycleVars>>

\* the handle_error calls of a type folder whose listing failed
FolderScanFailureContexts ==
    <<ErrorContext(FTPSListError, "sftp_file_operation", "high", "FTPSManager",
                   "list_files_in_folder", 0, 0),
      ErrorContext(FTPSListError, "sftp_file_operation", "medium", "TypeFolderScanner",
                   "scan_folder", 0, 0)>>

RECURSIVE ScanFailureContexts(_, _)
ScanFailureContexts(failed, k) ==
    IF k = 0 THEN <<>>
    ELSE ScanFailureContexts(failed, k - 1)
            \o (IF k \in failed THEN FolderScanFailureContexts ELSE <<>>)

\* Step 2: _scan_type_folders.  Every type folder is listed (a folder whose
\* listing fails counts as empty) and filtered for document files.
ScanTypeFoldersOk ==
    /\ pc = "scan"
    /\ \E listing \in Listings : \E failed \in SUBSET DOMAIN TypeFolders :
          /\ \A k \in failed : listing[k] = <<>>
          /\ scan_results' = [k \in DOMAIN TypeFolders |->
                                 FilterDocumentFiles(ListedFiles(listing[k]))]
          /\ error_history' =
                AppendAll(error_history, ScanFailureContexts(failed, Len(TypeFolders)))
    /\ pc' = "scan_check"
    /\ UNCHANGED <<execVars, date_folder, dlVars, localFiles, extractVars,
                   stats, publishVars, endVars, exc, phases, nonCycleVars>>

ScanTypeFoldersFail ==
    /\ pc = "scan"
    /\ RaiseFromPhase(FTPSConnectionError,
          ConnectFailureContexts("FTPSManager", "establish_ftps_connection")
          \o <<ErrorContext(FTPSConnectionError, "sftp_connection", "critical",
                            "MainController", "scan_type_folders", 0, 0)>>)
    /\ UNCHANGED <<execVars, date_folder, scan_results, dlVars, localFiles, extractVars,
                   stats, publishVars, endVars, phases, nonCycleVars>>

\* a check that never takes the early return
NoFilesFound_Never(scan) == FALSE

\* "if total_files == 0"
NoFilesFound(scan) == TotalFiles(scan, Len(TypeFolders)) = 0

\* "return self._build_empty_stats(date_folder, cycle_start_time)"
ScanFoundNothing ==
    /\ pc = "scan_check"
    /\ NoFilesFound(scan_results)
    /\ stats' = BuildEmptyStats(date_folder)
    /\ pc' = "returned"
    /\ UNCHANGED <<error_history, execVars, date_folder, scan_results, dlVars, localFiles,
                   extractVars, publishVars, endVars, exc, phases, nonCycleVars>>

ScanFoundFiles ==
    /\ pc = "scan_check"
    /\ ~NoFilesFound(scan_results)
    /\ pc' = "download_connect"
    /\ phases' = phases \cup {"download"}
    /\ UNCHANGED <<error_history, execVars, date_folder, scan_results, dlVars, localFiles,
                   extractVars, stats, publishVars, endVars, exc, nonCycleVars>>

\* the next type folder, from the k-th on, that has files left after the
\* date filter; Len(TypeFolders) + 1 when there is none
RECURSIVE NextFolder(_, _, _)
NextFolder(scan, target_date, k) ==
    IF k > Len(TypeFolders) THEN k
    ELSE IF DateFiltered(scan[k], target_date) # <<>> THEN k
    ELSE NextFolder(scan, target_date, k + 1)

\* the download loop moves to type folder k, or ends
EnterFolder(k) ==
    /\ dlFolder' = k
    /\ dlIdx' = 1
    /\ IF k > Len(TypeFolders)
       THEN dlFiles' = <<>> /\ pc' = "download_check"
       ELSE /\ dlFiles' = DateFiltered(scan_results[k], ParseFolderDate(date_folder))
            /\ pc' = "download_folder"

\* Step 3: _download_files_to_date_folder, "with connect_ftps(...)"
DownloadConnectOk ==
    /\ pc = "download_connect"
    /\ EnterFolder(NextFolder(scan_results, ParseFolderDate(date_folder), 1))
    /\ UNCHANGED <<error_history, execVars, date_folder, scan_results, download_results,
                   localFiles, extractVars, stats, publishVars, endVars, exc, phases,
                   nonCycleVars>>

DownloadConnectFail ==
    /\ pc = "download_connect"
    /\ RaiseFromPhase(FTPSConnectionError,
          ConnectFailureContexts("FTPSManager", "establish_ftps_connection")
          \o <<ErrorContext(FTPSConnectionError, "sftp_connection", "high",
                            "MainController", "download_files_to_date_folder", 0, 0)>>)
    /\ UNCHANGED <<execVars, date_folder, scan_results, dlVars, localFiles, extractVars,
                   stats, publishVars, endVars, phases, nonCycleVars>>

\* "type_subfolder = self.date_folder_manager.organize_by_type(...)"
OrganizeByTypeOk ==
    /\ pc = "download_folder"
    /\ pc' = "download_file"
    /\ UNCHANGED <<error_history, execVars, date_folder, scan_results, dlVars, localFiles,
                   extractVars, stats, publishVars, endVars, exc, phases, nonCycleVars>>

OrganizeByTypeFail ==
    /\ pc = "download_folder"
    /\ RaiseFromPhase(OSError,
          <<ErrorContext(OSError, "system_resource", "medium", "DateFolderManager",
                         "organize_by_type", 0, 0),
            ErrorContext(OSError, "sftp_connection", "high", "MainController",
                         "download_files_to_date_folder", 0, 0)>>)
    /\ UNCHANGED <<execVars, date_folder, scan_results, dlVars, localFiles, extractVars,
                   stats, publishVars, endVars, phases, nonCycleVars>>

\* after the file at dlIdx: the next file of the folder, or the next folder
AdvanceDownload ==
    IF dlIdx < Len(dlFiles)
    THEN /\ dlIdx' = dlIdx + 1
         /\ pc' = "download_file"
         /\ UNCHANGED <<dlFolder, dlFiles>>
    ELSE EnterFolder(NextFolder(scan_results, ParseFolderDate(date_folder), dlFolder + 1))

\* the "except Exception" of one file: the loop goes on
AdvanceAfterFailure == AdvanceDownload

\* one file: ftps_manager.download_file returns
DownloadFileOk ==
    /\ pc = "download_file"
    /\ LET file_info == dlFiles[dlIdx]
       IN  /\ download_results' =
                 Append(download_results,
                        DownloadResult(TypeFolders[dlFolder], file_info.filename, TRUE, NoMessage))
           /\ localFiles' =
                 localFiles \cup {LocalFile(TypeFolders[dlFolder], file_info.filename)}
    /\ AdvanceDownload
    /\ UNCHANGED <<error_history, execVars, date_folder, scan_results, extractVars, stats,
                   publishVars, endVars, exc, phases, nonCycleVars>>

\* one file: ftps_manager.download_file raises after its attempts, having
\* removed the partial local file
DownloadFileFail ==
    /\ pc = "download_file"
    /\ LET file_info == dlFiles[dlIdx]
       IN  /\ download_results' =
                 Append(download_results,
                        DownloadResult(TypeFolders[dlFolder], file_info.filename, FALSE,
                                       FTPSFileError.msg))
           /\ localFiles' =
                 localFiles \ {LocalFile(TypeFolders[dlFolder], file_info.filename)}
    /\ error_history' =
          AppendHistory(error_history,
                        ErrorContext(FTPSFileError, "sftp_file_operation", "medium",
                                     "MainController", "download_file", 0, 0))
    /\ AdvanceAfterFailure
    /\ UNCHANGED <<execVars, date_folder, scan_results, extractVars, stats,
                   publishVars, endVars, exc, phases, nonCycleVars>>

SuccessfulDownloads(downloads) ==
    Cardinality({i \in 1..Len(downloads) : downloads[i].success})

\* a check that goes on without any downloaded file
NoneDownloaded_Never(downloads) == FALSE

\* "if successful_downloads == 0"
NoneDownloaded(downloads) == SuccessfulDownloads(downloads) = 0

\* the stats returned when nothing was downloaded
ZeroDownloadStats(folder_name, downloads) == BuildEmptyStats(folder_name)

DownloadedNothing ==
    /\ pc = "download_check"
    /\ NoneDownloaded(download_results)
    /\ stats' = ZeroDownloadStats(date_folder, download_results)
    /\ pc' = "returned"
    /\ UNCHANGED <<error_history, execVars, date_folder, scan_results, dlVars, localFiles,
                   extractVars, publishVars, endVars, exc, phases, nonCycleVars>>

\* the document files the extract phase finds in the type subfolders
DocumentsToProcess(files) ==
    FilesInOrder({f \in files : HasDocumentSuffix(f.filename)})

DownloadedSome ==
    /\ pc = "download_check"
    /\ ~NoneDownloaded(download_results)
    /\ pc' = "extract"
    /\ phases' = phases \cup {"extract"}
    /\ docQueue' = DocumentsToProcess(localFiles)
    /\ medical_records' = <<>>
    /\ UNCHANGED <<error_history, execVars, date_folder, scan_results, dlVars, localFiles,
                   csv, stats, publishVars, endVars, exc, nonCycleVars>>

\* Step 4: one document of _process_documents_and_generate_csv.  The text
\* is extracted and parsed into a record, which is appended even when the
\* text is empty.
ProcessDocumentOk ==
    /\ pc = "extract"
    /\ docQueue # <<>>
    /\ medical_records' = Append(medical_records, MedicalRecord(Head(docQueue).filename))
    /\ docQueue' = Tail(docQueue)
    /\ UNCHANGED <<error_history, execVars, pc, date_folder, scan_results, dlVars, localFiles,
                   csv, stats, publishVars, endVars, exc, phases, nonCycleVars>>

\* one document whose extraction raises: "except Exception", the file is
\* skipped
ProcessDocumentFail ==
    /\ pc = "extract"
    /\ docQueue # <<>>
    /\ error_history' =
          AppendHistory(error_history,
                        ErrorContext(ParseError, "document_parsing", "medium",
                                     "MainController", "process_document", 0, 0))
    /\ docQueue' = Tail(docQueue)
    /\ UNCHANGED <<execVars, pc, date_folder, scan_results, dlVars, localFiles,
                   medical_records, csv, stats, publishVars, endVars, exc, phases,
                   nonCycleVars>>

\* the CSV is written (header only when there is no record); then
\* "stats = self._build_processing_stats(...)"
GenerateCsvOk ==
    /\ pc = "extract"
    /\ docQueue = <<>>
    /\ csv' = WrittenCsv(medical_records)
    /\ stats' = BuildProcessingStats(date_folder, scan_results, download_results,
                                     medical_records, csv')
    /\ pc' = "publish"
    /\ phases' = phases \cup {"publish"}
    /\ UNCHANGED <<error_history, execVars, date_folder, scan_results, dlVars, localFiles,
                   docQueue, medical_records, publishVars, endVars, exc, nonCycleVars>>

\* open(csv_path, 'w') raises
GenerateCsvFail ==
    /\ pc = "extract"
    /\ docQueue = <<>>
    /\ RaiseFromPhase(OSError,
          <<ErrorContext(OSError, "file_processing", "high", "MainController",
                         "process_documents_and_generate_csv", 0, 0)>>)
    /\ UNCHANGED <<execVars, date_folder, scan_results, dlVars, localFiles, extractVars,
                   stats, publishVars, endVars, phases, nonCycleVars>>

\* a first batch that already holds the notification
InitialActionNames_WithEmail == <<"upload_csv", "create_log", "send_email">>

\* "initial_actions = [...]" of _execute_parallel_actions
InitialActionNames == <<"upload_csv", "create_log">>

ActionsNamed(names) == [i \in DOMAIN names |-> Action(names[i], TRUE)]

\* Step 5: "initial_results = self.parallel_executor.execute_parallel(initial_actions)"
ExecuteInitialActions ==
    /\ pc = "publish"
    /\ ExecEnter(ActionsNamed(InitialActionNames))
    /\ pc' = "initial_actions"
    /\ UNCHANGED <<error_history, exBatches, exWorkers, date_folder, scan_results, dlVars, localFiles,
                   extractVars, stats, publishVars, endVars, exc, phases, nonCycleVars>>

InExecuteParallel == pc \in {"initial_actions", "email_action"}

CycleSubmit ==
    /\ InExecuteParallel
    /\ ExecSubmit
    /\ UNCHANGED nonExecVars

CycleWorkerStart ==
    /\ InExecuteParallel
    /\ \E i \in DOMAIN fut : ExecWorkerStart(i)
    /\ UNCHANGED nonExecVars

CycleCollect ==
    /\ InExecuteParallel
    /\ \E i \in DOMAIN fut : ExecCollect(i)
    /\ UNCHANGED nonExecVars

CycleReturn ==
    /\ InExecuteParallel
    /\ ExecReturn
    /\ UNCHANGED nonExecVars

RunningAction(i, name) ==
    /\ InExecuteParallel
    /\ exActions[i].name = name
    /\ fut[i].state = "running"

\* upload_csv_action on a worker thread: connect, upload
UploadCsvOk ==
    /\ \E i \in DOMAIN fut : RunningAction(i, "upload_csv") /\ FinishFuture(i, NoError, <<>>)
    /\ remoteCsv' = TRUE
    /\ UNCHANGED <<nonCycleVars, pc, date_folder, scan_results, dlVars, localFiles, extractVars,
                   stats, initial_results, logFiles, emailRead, emailOutcome, endVars, exc,
                   phases>>

\* upload_csv_action raises: the connection attempts all failed, or the
\* upload itself failed
UploadCsvFail ==
    /\ \E i \in DOMAIN fut :
          /\ RunningAction(i, "upload_csv")
          /\ \/ FinishFuture(i, SFTPConnectionError,
                              ConnectFailureContexts("SFTPManager", "establish_connection"))
             \/ FinishFuture(i, SFTPFileError, <<>>)
    /\ UNCHANGED <<nonCycleVars, cycleVars>>

\* create_log_action on a worker thread: a new log file in the date folder
CreateLogOk ==
    /\ \E i \in DOMAIN fut : RunningAction(i, "create_log") /\ FinishFuture(i, NoError, <<>>)
    /\ logFiles' = logFiles \cup {"processing_log_new.txt"}
    /\ UNCHANGED <<nonCycleVars, pc, date_folder, scan_results, dlVars, localFiles, extractVars,
                   stats, initial_results, remoteCsv, emailRead, emailOutcome, endVars, exc,
                   phases>>

CreateLogFail ==
    /\ \E i \in DOMAIN fut :
          /\ RunningAction(i, "create_log")
          /\ FinishFuture(i, OSError,
                          <<ErrorContext(OSError, "file_processing", "medium",
                                         "ProcessingLogCreator", "create_log", 0, 0)>>)
    /\ UNCHANGED <<nonCycleVars, cycleVars>>

\* send_email_action on a worker thread: send_webscribe_notification reads
\* the stats and returns True or False, which the action drops
SendEmail ==
    /\ \E i \in DOMAIN fut : RunningAction(i, "send_email") /\ FinishFuture(i, NoError, <<>>)
    /\ emailRead' = stats
    /\ emailOutcome' \in {"sent", "not sent"}
    /\ UNCHANGED <<nonCycleVars, pc, date_folder, scan_results, dlVars, localFiles, extractVars,
                   stats, initial_results, logFiles, remoteCsv, endVars, exc, phases>>

\* the first batch has returned: "stats.upload_status = ...",
\* "stats.log_filename = ..."
CollectInitialResults ==
    /\ pc = "initial_actions"
    /\ exPc = "returned"
    /\ initial_results' = exResults
    /\ \E log_filename \in GetLogFilenames(exResults, logFiles) :
          stats' = [stats EXCEPT !.upload_status = GetUploadStatus(exResults),
                                 !.log_filename = log_filename]
    /\ exPc' = "idle"
    /\ pc' = "notify"
    /\ phases' = phases \cup {"notify"}
    /\ UNCHANGED <<error_history, exActions, exIdx, fut, exResults, exBatches, exWorkers, date_folder,
                   scan_results, dlVars, localFiles, extractVars, logFiles, remoteCsv,
                   emailRead, emailOutcome, endVars, exc, nonCycleVars>>

\* "email_result = self.parallel_executor.execute_parallel([email_action])"
ExecuteEmailAction ==
    /\ pc = "notify"
    /\ ExecEnter(ActionsNamed(<<"send_email">>))
    /\ pc' = "email_action"
    /\ UNCHANGED <<error_history, exBatches, exWorkers, date_folder, scan_results, dlVars, localFiles,
                   extractVars, stats, publishVars, endVars, exc, phases, nonCycleVars>>

\* "results = initial_results + email_result", and lines 150-153 of
\* run_processing_cycle
UpdateStatsWithActionResults ==
    /\ pc = "email_action"
    /\ exPc = "returned"
    /\ LET action_results == initial_results \o exResults
       IN  \E log_filename \in GetLogFilenames(action_results, logFiles) :
              stats' = [stats EXCEPT !.upload_status = GetUploadStatus(action_results),
                                     !.email_sent = GetEmailStatus(action_results),
                                     !.log_filename = log_filename]
    /\ exPc' = "idle"
    /\ pc' = "backup"
    /\ phases' = phases \cup {"archive"}
    /\ UNCHANGED <<error_history, exActions, exIdx, fut, exResults, exBatches, exWorkers, date_folder,
                   scan_results, dlVars, localFiles, extractVars, publishVars, endVars, exc,
                   nonCycleVars>>

\* Step 6: _backup_date_folder, then "return stats".
\* A backup location holds nothing ("none"), an earlier backup of the same
\* date ("old") or a copy of the working directory of this cycle ("copy").
PriorBackups == {"none", "old"}

\* "if backup_folder.exists(): shutil.rmtree(backup_folder)"
RemoveExisting(prior) == "none"

\* "shutil.copytree(date_folder, backup_folder)" into the emptied location
CopyTree(dest) == IF dest = "none" THEN "copy" ELSE "raises"

BackupOk ==
    /\ pc = "backup"
    /\ \E prior \in PriorBackups :
          backup' = [prior |-> prior, now |-> CopyTree(RemoveExisting(prior))]
    /\ pc' = "returned"
    /\ UNCHANGED <<error_history, execVars, date_folder, scan_results, dlVars, localFiles,
                   extractVars, stats, publishVars, failureNotices, exc, phases, nonCycleVars>>

\* where the cycle continues after the "except Exception" of the backup
AfterBackupFailure_Reraises == "except"

AfterBackupFailure == "returned"

\* rmtree raises (the earlier backup stays) or copytree raises (nothing is
\* left at the location): handle_error, and the cycle still returns
BackupFail ==
    /\ pc = "backup"
    /\ \E prior \in PriorBackups :
          backup' = [prior |-> prior,
                     now |-> IF prior = "old" THEN prior ELSE RemoveExisting(prior)]
    /\ error_history' =
          AppendHistory(error_history,
                        ErrorContext(OSError, "system_resource", "low", "MainController",
                                     "backup_date_folder", 0, 0))
    /\ pc' = AfterBackupFailure
    /\ exc' = IF AfterBackupFailure = "returned" THEN exc ELSE OSError
    /\ UNCHANGED <<execVars, date_folder, scan_results, dlVars, localFiles,
                   extractVars, stats, publishVars, failureNotices, phases, nonCycleVars>>

ProcessingError(error) ==
    [type |-> "ProcessingError", msg |-> <<"Processing", "cycle", "failed:">> \o error.msg]

\* "except Exception as e" of run_processing_cycle, first statement:
\* handle_error(SYSTEM_RESOURCE, CRITICAL)
HandleCycleError ==
    /\ pc = "except"
    /\ error_history' =
          AppendHistory(error_history,
                        ErrorContext(exc, "system_resource", "critical", "MainController",
                                     "run_processing_cycle", 0, 0))
    /\ pc' = "notify_failure"
    /\ UNCHANGED <<execVars, date_folder, scan_results, dlVars, localFiles,
                   extractVars, stats, publishVars, endVars, exc, phases, nonCycleVars>>

EmailNotificationError == [type |-> "EmailNotificationError", msg |-> <<"Failed", "to", "send">>]

\* a handler whose notification is not guarded
FailureNoticeGuarded_OnlyReturns(outcome) == outcome # "raised"

\* "try: self.email_notifier.send_failure_notification(...)
\*  except Exception as email_error: logger.error(...)"
FailureNoticeGuarded(outcome) == TRUE

\* the failure notification: the sender returns True or False, or the call
\* raises
SendFailureNotification ==
    /\ pc = "notify_failure"
    /\ \E outcome \in {"sent", "not sent", "raised"} :
          /\ failureNotices' = Append(failureNotices, outcome)
          /\ IF FailureNoticeGuarded(outcome)
             THEN pc' = "reraise" /\ exc' = exc
             ELSE pc' = "raised" /\ exc' = EmailNotificationError
    /\ UNCHANGED <<error_history, execVars, date_folder, scan_results, dlVars, localFiles,
                   extractVars, stats, publishVars, backup, phases, nonCycleVars>>

\* "raise ProcessingError(f"Processing cycle failed: {e}")"
RaiseProcessingError ==
    /\ pc = "reraise"
    /\ exc' = ProcessingError(exc)
    /\ pc' = "raised"
    /\ UNCHANGED <<error_history, execVars, date_folder, scan_results, dlVars, localFiles,
                   extractVars, stats, publishVars, endVars, phases, nonCycleVars>>

CycleNext ==
    \/ CreateDateFolderOk
    \/ CreateDateFolderFail
    \/ ScanTypeFoldersOk
    \/ ScanTypeFoldersFail
    \/ ScanFoundNothing
    \/ ScanFoundFiles
    \/ DownloadConnectOk
    \/ DownloadConnectFail
    \/ OrganizeByTypeOk
    \/ OrganizeByTypeFail
    \/ DownloadFileOk
    \/ DownloadFileFail
    \/ DownloadedNothing
    \/ DownloadedSome
    \/ ProcessDocumentOk
    \/ ProcessDocumentFail
    \/ GenerateCsvOk
    \/ GenerateCsvFail
    \/ ExecuteInitialActions
    \/ CycleSubmit
    \/ CycleWorkerStart
    \/ CycleCollect
    \/ CycleReturn
    \/ UploadCsvOk
    \/ UploadCsvFail
    \/ CreateLogOk
    \/ CreateLogFail
    \/ SendEmail
    \/ CollectInitialResults
    \/ ExecuteEmailAction
    \/ UpdateStatsWithActionResults
    \/ BackupOk
    \/ BackupFail
    \/ HandleCycleError
    \/ SendFailureNotification
    \/ RaiseProcessingError

(***************************************************************************)
(* Scheduler.  Time is counted in ticks of 1/TicksPerSec second, so that   *)
(* int(seconds_until_next) truncates.  A tick passes when no thread has a  *)
(* step to take that takes no time: the timer threads are then waiting on  *)
(* the stop event or inside the job, and stop() is inside its join.  The   *)
(* job list is the one of the schedule library: a job is due when its      *)
(* next_run is reached, and a job that has run gets next_run = now +       *)
(* interval.                                                               *)
(***************************************************************************)
TicksPerSec == 2

\* config.poll_interval_seconds
poll_interval_seconds == 2

\* the period of config.poll_cron, in seconds
CronPeriodSeconds == 3

CronTicks == CronPeriodSeconds * TicksPerSec

\* "self._thread.join(timeout=5.0)"
JoinTimeoutSeconds == 5

JoinTimeoutTicks == JoinTimeoutSeconds * TicksPerSec

\* "self._stop_event.wait(1.0)"
PollTicks == TicksPerSec

MaxJobTicks == MaxJobSeconds * TicksPerSec

ShortJobTicks == ShortJobSeconds * TicksPerSec

\* the scheduler is started once and its job can outlast the join of stop,
\* or it is started again after a stop and its job is short
Surroundings ==
    {[job_ticks |-> MaxJobTicks, starts |-> 1],
     [job_ticks |-> ShortJobTicks, starts |-> MaxThreads]}

\* the longest time between two fires that is measured
MaxGap == (poll_interval_seconds + 2) * TicksPerSec

\* the time after start() that is looked at: one second more than the interval
Horizon == (poll_interval_seconds + 1) * TicksPerSec

NotStarted == [ticks |-> -1, fires |-> 0, slow |-> FALSE]

ThreadIds == 1..MaxThreads

\* a thread that start() has not created yet
NoThread == [pc |-> "unborn", ticks |-> 0, todo |-> <<>>, outcome |-> "none"]

\* threading.Thread.is_alive
IsAlive(t) == threads[t].pc \notin {"unborn", "done"}

ThreadsCreated == {t \in ThreadIds : threads[t].pc # "unborn"}

\* the job objects the library or a run_pending in progress refers to
JobIdsInUse ==
    {jobs[i].id : i \in DOMAIN jobs} \cup
    UNION {{threads[t].todo[i].id : i \in DOMAIN threads[t].todo} : t \in ThreadIds}

NewJobId ==
    CHOOSE i \in 1..(Cardinality(JobIdsInUse) + 1) :
        i \notin JobIdsInUse /\ \A k \in 1..(i - 1) : k \in JobIdsInUse

\* a job of the library, and with it what the model keeps track of for a
\* cron timer: the ticks until the cron instant it was armed for (0 once the
\* instant is reached) and whether it is the first or a further timer armed
\* for that instant
Job(tag, interval) ==
    [id |-> NewJobId, tag |-> tag, interval |-> interval, due |-> interval * TicksPerSec,
     ahead |-> 0, nth |-> 1]

\* a job that is due as soon as it is scheduled
IntervalJob_DueAtOnce == [Job("", poll_interval_seconds) EXCEPT !.due = 0]

\* "schedule.every(self.config.poll_interval_seconds).seconds.do(...)"
IntervalJob == Job("", poll_interval_seconds)

\* "schedule.every(int(seconds_until_next)).seconds.do(...).tag('cron_job')"
CronJob(ticks_until_next) ==
    [Job("cron_job", ticks_until_next \div TicksPerSec) EXCEPT !.ahead = ticks_until_next]

\* one tick later: the job list and the distance to the next cron match
JobsAfterTick ==
    [i \in DOMAIN jobs |-> [jobs[i] EXCEPT !.due = IF @ > 0 THEN @ - 1 ELSE 0,
                                           !.ahead = IF @ > 0 THEN @ - 1 ELSE 0]]

CronInAfterTick == ((cronIn - 2) % CronTicks) + 1

\* _schedule_next_cron_job: "if not self._running: return"
ScheduleNextCronJob(job_list) ==
    IF running THEN Append(job_list, CronJob(cronIn)) ELSE job_list

\* Scheduler.is_running
IsRunning == running /\ thread_ref # 0 /\ IsAlive(thread_ref)

\* a Scheduler as constructed, in one of the given surroundings
SchedIn(surroundings) ==
    /\ sMode \in {"interval", "cron"}
    /\ running = FALSE
    /\ stop_event = FALSE
    /\ thread_ref = 0
    /\ threads = [t \in ThreadIds |-> NoThread]
    /\ jobs = <<>>
    /\ cronIn \in IF sMode = "cron" THEN 1..CronTicks ELSE {CronTicks}
    /\ failures = 0
    /\ callPc = "idle"
    /\ joinLeft = 0
    /\ calls = [last |-> "none", change |-> "none"]
    /\ env \in surroundings
    /\ sinceFire = -1
    /\ started = NotStarted

SchedInit == SchedIn(Surroundings)

\* a fire: the time since the previous fire of this run of the scheduler
\* starts again
Fire ==
    /\ sinceFire' = IF sMode = "interval" THEN 0 ELSE sinceFire
    /\ started' = IF started.ticks \in 0..Horizon
                  THEN [started EXCEPT !.fires = @ + 1]
                  ELSE started

\* start() creates every thread but this one
AlreadyRunning_Never(r) == FALSE

\* Scheduler.start: "if self._running: ... return"
AlreadyRunning(r) == r

\* Scheduler.start on a scheduler that is not running
Start ==
    /\ callPc = "idle"
    /\ ~AlreadyRunning(running)
    /\ Cardinality(ThreadsCreated) < env.starts
    /\ LET t == Cardinality(ThreadsCreated) + 1
       IN  /\ thread_ref' = t
           /\ threads' = [threads EXCEPT ![t].pc = "setup"]
    /\ running' = TRUE
    /\ stop_event' = FALSE
    /\ calls' = [last |-> "start", change |-> "start"]
    /\ sinceFire' = -1
    /\ started' = IF sMode = "interval" THEN [NotStarted EXCEPT !.ticks = 0] ELSE NotStarted
    /\ UNCHANGED <<nonSchedVars, sMode, jobs, cronIn, failures, callPc, joinLeft, env>>

\* Scheduler.start on a running scheduler: a warning and nothing else
StartIgnored ==
    /\ callPc = "idle"
    /\ AlreadyRunning(running)
    /\ calls' = [calls EXCEPT !.last = "start ignored"]
    /\ UNCHANGED <<nonSchedVars, sMode, running, stop_event, thread_ref, threads, jobs, cronIn,
                   failures, callPc, joinLeft, env, sinceFire, started>>

\* a join that ends the thread it waits for
Joined_Interrupts(th) == IF th.pc \in {"job", "after_job"} THEN [th EXCEPT !.pc = "done"] ELSE th

\* "self._thread.join(timeout=5.0)" waits and does nothing to the thread
Joined(th) == th

\* Scheduler.stop on a running scheduler, up to the join
Stop ==
    /\ callPc = "idle"
    /\ running
    /\ running' = FALSE
    /\ stop_event' = TRUE
    /\ jobs' = <<>>
    /\ threads' = [threads EXCEPT ![thread_ref] = Joined(@)]
    /\ callPc' = "joining"
    /\ joinLeft' = JoinTimeoutTicks
    /\ calls' = [last |-> "stop", change |-> "stop"]
    /\ started' = NotStarted
    /\ UNCHANGED <<nonSchedVars, sMode, thread_ref, cronIn, failures, env, sinceFire>>

\* the join returns, the thread has ended or the timeout has passed;
\* "self._thread = None"
StopReturns ==
    /\ callPc = "joining"
    /\ ~IsAlive(thread_ref) \/ joinLeft = 0
    /\ thread_ref' = 0
    /\ callPc' = "idle"
    /\ UNCHANGED <<nonSchedVars, sMode, running, stop_event, threads, jobs, cronIn, failures,
                   joinLeft, calls, env, sinceFire, started>>

\* Scheduler.stop on a scheduler that is not running: a warning and nothing else
StopIgnored ==
    /\ callPc = "idle"
    /\ ~running
    /\ calls' = [calls EXCEPT !.last = "stop ignored"]
    /\ UNCHANGED <<nonSchedVars, sMode, running, stop_event, thread_ref, threads, jobs, cronIn,
                   failures, callPc, joinLeft, env, sinceFire, started>>

\* what the steps of a timer thread leave alone
callVars == <<sMode, running, stop_event, thread_ref, callPc, joinLeft, calls, env>>

\* _run_scheduler: _setup_cron_schedule or _setup_interval_schedule
ThreadSetup(t) ==
    /\ threads[t].pc = "setup"
    /\ jobs' = IF sMode = "cron" THEN ScheduleNextCronJob(jobs) ELSE Append(jobs, IntervalJob)
    /\ threads' = [threads EXCEPT ![t].pc = "loop"]
    /\ UNCHANGED <<nonSchedVars, callVars, cronIn, failures, sinceFire, started>>

\* "while self._running and not self._stop_event.is_set()"
LoopCheck(t) ==
    /\ threads[t].pc = "loop"
    /\ threads' = [threads EXCEPT ![t].pc = IF running /\ ~stop_event THEN "run_pending"
                                                                     ELSE "done"]
    /\ UNCHANGED <<nonSchedVars, callVars, jobs, cronIn, failures, sinceFire, started>>

IsDue(j) == j.due = 0

\* the thread goes on with the jobs run_pending has left to run, or waits
Proceed(th, todo) ==
    IF todo # <<>>
    THEN [th EXCEPT !.pc = "job", !.ticks = 0, !.todo = todo]
    ELSE [th EXCEPT !.pc = "wait", !.ticks = PollTicks, !.todo = todo]

\* schedule.run_pending(): the due jobs are taken from the list and run one
\* after the other
RunPending(t) ==
    /\ threads[t].pc = "run_pending"
    /\ LET due == SelectSeq(jobs, IsDue)
       IN  /\ threads' = [threads EXCEPT ![t] = Proceed(@, due)]
           /\ IF due # <<>> THEN Fire ELSE UNCHANGED <<sinceFire, started>>
    /\ UNCHANGED <<nonSchedVars, callVars, jobs, cronIn, failures>>

\* self.job_function() returns
JobReturns(t) ==
    /\ threads[t].pc = "job"
    /\ threads' = [threads EXCEPT ![t].pc = "after_job", ![t].outcome = "ok"]
    /\ failures' = 0
    /\ UNCHANGED <<nonSchedVars, callVars, jobs, cronIn, sinceFire, started>>

\* a wrapper that lets the exception through: the thread ends
AfterJobRaised_ThreadEnds == "done"

\* _safe_job_execution, "except Exception as e": logged, the wrapper returns
AfterJobRaised == "after_job"

\* self.job_function() raises an Exception
JobRaises(t) ==
    /\ threads[t].pc = "job"
    /\ threads' = [threads EXCEPT ![t].pc = AfterJobRaised, ![t].outcome = "raised"]
    /\ failures' = IF failures < MaxFailures THEN failures + 1 ELSE failures
    /\ UNCHANGED <<nonSchedVars, callVars, jobs, cronIn, sinceFire, started>>

\* a wrapper that schedules the next cron job only after a job that returned
CronRearmed_OnlyAfterReturn(outcome) == outcome = "ok"

\* _cron_job_wrapper: _safe_job_execution has caught what the job raised, so
\* the clear and _schedule_next_cron_job follow either outcome
CronRearmed(outcome) == TRUE

NotCronJob(j) == j.tag # "cron_job"

\* the job list after the job function of job j has returned to the library
JobsAfterRun(j, outcome) ==
    IF j.tag = "cron_job"
    THEN LET cleared == SelectSeq(jobs, NotCronJob)
             armed == IF CronRearmed(outcome) THEN ScheduleNextCronJob(cleared) ELSE cleared
         IN  IF Len(armed) > Len(cleared) /\ j.ahead > 0
             THEN [armed EXCEPT ![Len(armed)].nth = 2]
             ELSE armed
    ELSE [i \in DOMAIN jobs |->
            IF jobs[i].id = j.id THEN [jobs[i] EXCEPT !.due = j.interval * TicksPerSec]
                                 ELSE jobs[i]]

\* the job object run_pending took, after the job function has run for the
\* given number of ticks
SinceFired(j, ticks) == [j EXCEPT !.ahead = IF @ > ticks THEN @ - ticks ELSE 0]

\* after _safe_job_execution.  A cron job: _cron_job_wrapper clears the cron
\* jobs and schedules the next one.  An interval job: the library gives the
\* job its next_run, if stop has not removed it from the list.  Then the
\* next due job of this run_pending, or the wait.
AfterJob(t) ==
    /\ threads[t].pc = "after_job"
    /\ jobs' = JobsAfterRun(SinceFired(Head(threads[t].todo), threads[t].ticks),
                            threads[t].outcome)
    /\ threads' = [threads EXCEPT ![t] = Proceed(@, Tail(@.todo))]
    /\ IF Tail(threads[t].todo) # <<>> THEN Fire ELSE UNCHANGED <<sinceFire, started>>
    /\ UNCHANGED <<nonSchedVars, callVars, cronIn, failures>>

\* "self._stop_event.wait(1.0)" returns: the event is set, or one second
\* has passed
Wait(t) ==
    /\ threads[t].pc = "wait"
    /\ stop_event \/ threads[t].ticks = 0
    /\ threads' = [threads EXCEPT ![t].pc = "loop", ![t].ticks = 0]
    /\ UNCHANGED <<nonSchedVars, callVars, jobs, cronIn, failures, sinceFire, started>>

\* a thread has a step to take before time passes
Urgent(t) ==
    \/ threads[t].pc \in {"setup", "loop", "run_pending", "after_job"}
    \/ threads[t].pc = "wait" /\ (stop_event \/ threads[t].ticks = 0)
    \/ threads[t].pc = "job" /\ threads[t].ticks = env.job_ticks

\* main() goes from scheduler.start() to the initial cycle without waiting
MainUrgent == mainPc = "init" /\ running

\* one tick of time
Tick ==
    /\ \A t \in ThreadIds : ~Urgent(t)
    /\ ~MainUrgent
    /\ callPc = "joining" => IsAlive(thread_ref) /\ joinLeft > 0
    /\ threads' = [t \in ThreadIds |->
                     IF threads[t].pc = "job" THEN [threads[t] EXCEPT !.ticks = @ + 1]
                     ELSE IF threads[t].pc = "wait" THEN [threads[t] EXCEPT !.ticks = @ - 1]
                     ELSE threads[t]]
    /\ jobs' = JobsAfterTick
    /\ cronIn' = IF sMode = "cron" THEN CronInAfterTick ELSE cronIn
    /\ joinLeft' = IF callPc = "joining" THEN joinLeft - 1 ELSE joinLeft
    /\ sinceFire' = IF sinceFire = -1 \/ sinceFire = MaxGap THEN sinceFire ELSE sinceFire + 1
    /\ started' = IF started.ticks \in 0..Horizon
                  THEN [started EXCEPT !.ticks = @ + 1,
                                       !.slow = @ \/ \E t \in ThreadIds : threads[t].pc = "job"]
                  ELSE started
    /\ UNCHANGED <<nonSchedVars, sMode, running, stop_event, thread_ref, failures, callPc,
                   calls, env>>

\* the steps of the timer threads
TimerThread ==
    \E t \in ThreadIds :
        \/ ThreadSetup(t)
        \/ LoopCheck(t)
        \/ RunPending(t)
        \/ JobReturns(t)
        \/ JobRaises(t)
        \/ AfterJob(t)
        \/ Wait(t)

SchedNext ==
    \/ Start
    \/ StartIgnored
    \/ Stop
    \/ StopReturns
    \/ StopIgnored
    \/ TimerThread
    \/ Tick

\* the steps of the timer threads when the job returns
RestartThread ==
    \E t \in ThreadIds :
        \/ ThreadSetup(t)
        \/ LoopCheck(t)
        \/ RunPending(t)
        \/ JobReturns(t)
        \/ AfterJob(t)
        \/ Wait(t)

\* a caller that stops the scheduler to start it again
RestartNext ==
    \/ Start
    \/ Cardinality(ThreadsCreated) < env.starts /\ Stop
    \/ StopReturns
    \/ RestartThread
    \/ Tick

(***************************************************************************)
(* main(): after scheduler.start() the main thread runs an initial         *)
(* processing cycle itself, "results = main_controller.run_processing_     *)
(* cycle()", and then stays in "while scheduler.is_running()".  The cycle  *)
(* takes the time its transfers take.  The scheduler's job is              *)
(* run_scheduled_processing, which calls run_processing_cycle of the same  *)
(* controller.                                                             *)
(***************************************************************************)
NotScheduled == [pc |-> "idle", controller |-> TRUE, results |-> "None"]

MainAbsent == mainPc = "none" /\ scheduled = NotScheduled

\* "Running initial processing cycle..."
MainCycleBegins ==
    /\ mainPc = "init"
    /\ calls.change = "start"
    /\ mainPc' = "cycle"
    /\ UNCHANGED <<nonMainVars, scheduled>>

\* the initial cycle returns or raises; main() goes on to its loop either way
MainCycleEnds ==
    /\ mainPc = "cycle"
    /\ mainPc' = "alive"
    /\ UNCHANGED <<nonMainVars, scheduled>>

MainNext ==
    \/ SchedNext
    \/ MainCycleBegins
    \/ MainCycleEnds

(***************************************************************************)
(* Uses of a remote server: "with manager.connect(config) as client" of    *)
(* FTPSManager and SFTPManager, and EmailNotifier._send_email.  Each has   *)
(* its own loop "for attempt in range(max_retries)" and reports a failed   *)
(* attempt with handle_error directly.                                     *)
(*                                                                         *)
(* A connection is named by the use and the attempt that opened it.  An    *)
(* attempt fails before the connection to the server exists ("connect"),   *)
(* when the server has accepted the connection ("login"), or when the      *)
(* login has succeeded ("setup": the TLS set-up of the data channel, the   *)
(* change of directory, the opening of the SFTP channel, the test          *)
(* listing).                                                               *)
(***************************************************************************)
ManagerMaxRetries == 3   \* FTPSManager(), SFTPManager(): max_retries = 3
EmailMaxRetries == 3     \* _send_email(..., max_retries = 3)

NoSession == [use |-> 0, attempt |-> 0, logged_in |-> FALSE]
Session(use, att, logged_in) == [use |-> use, attempt |-> att, logged_in |-> logged_in]

ErrAuth == [type |-> "error_perm", msg |-> <<"530", "Authentication", "failed">>]
ErrSmtpAuth ==
    [type |-> "SMTPAuthenticationError", msg |-> <<"535", "Authentication", "failed">>]
ErrRefused == [type |-> "SMTPRecipientsRefused", msg |-> <<"recipient", "refused">>]
ErrUnexpected == [type |-> "ValueError", msg |-> <<"invalid", "header">>]

Managers == {"ftps", "sftp"}
Stages == {"connect", "login", "setup"}

\* the errors an attempt can fail with at a stage
StageErrors(stage) == IF stage = "login" THEN {ErrAuth} ELSE {ErrTimeout}

\* the errors the "with" body (list, download, upload) can raise
BodyErrors == {FTPSFileError, SFTPFileError}

\* "for attempt in range(self.max_retries)": the body runs for att
ManagerLoopContinues(att) == att < ManagerMaxRetries

\* a loop that runs one iteration too many
EmailLoopContinues_OffByOne(att) == att <= EmailMaxRetries

\* "for attempt in range(max_retries)" of _send_email
EmailLoopContinues(att) == att < EmailMaxRetries

\* "severity = HIGH if attempt == max_retries - 1 else MEDIUM"
LoopSeverity(att, max) == IF att = max - 1 THEN "high" ELSE "medium"

\* the handle_error call of a connection loop
ConnectionContext(manager, e, att) ==
    ErrorContext(e, "sftp_connection", LoopSeverity(att, ManagerMaxRetries),
                 IF manager = "ftps" THEN "FTPSManager" ELSE "SFTPManager",
                 IF manager = "ftps" THEN "establish_ftps_connection"
                                     ELSE "establish_connection",
                 att, ManagerMaxRetries - 1)

\* The attribute of the manager during an attempt.  SFTPManager assigns
\* self._ssh_client before it connects; FTPSManager works on the local
\* "ftps" and assigns self._ftps_client only when the attempt has succeeded.
HeldInAttempt(manager, before, s) == IF manager = "sftp" THEN s ELSE before

\* "Clean up failed connection": both managers close what the attribute
\* refers to (SFTPManager._close_connection; self._ftps_client.quit()).
CleanUpFailed(open, attribute) == open \ {attribute}

\* the attribute after the "with" block has closed the client:
\* SFTPManager._close_connection resets it, FTPSManager._close_connection does not
HeldAfterClose(manager, before) == IF manager = "sftp" THEN NoSession ELSE before

\* what _establish_ftps_connection / _establish_connection raise after the loop
ConnectionErrorOf(manager) ==
    IF manager = "ftps" THEN FTPSConnectionError ELSE SFTPConnectionError

RemoteInit ==
    /\ cPc = "idle"
    /\ cManager = "ftps"
    /\ cAttempt = 0
    /\ sessions = {}
    /\ held = [m \in Managers |-> NoSession]
    /\ cClient = NoSession
    /\ cRaised = NoError
    /\ cReturned = "none"
    /\ cErrors = <<>>
    /\ cUses = 0

\* a phase enters "with manager.connect(config) as client": client = None
Connect ==
    /\ cPc = "idle"
    /\ cUses < MaxUses
    /\ \E manager \in Managers : cManager' = manager
    /\ cPc' = IF ManagerLoopContinues(0) THEN "attempt" ELSE "after_loop"
    /\ cAttempt' = 0
    /\ cClient' = NoSession
    /\ cRaised' = NoError
    /\ cReturned' = "none"
    /\ cErrors' = <<>>
    /\ cUses' = cUses + 1
    /\ UNCHANGED <<nonRemoteVars, error_history, sessions, held>>

\* an attempt succeeds: the connection is returned and the "with" body starts
AttemptOk ==
    /\ cPc = "attempt"
    /\ LET s == Session(cUses, cAttempt + 1, TRUE)
       IN  /\ sessions' = sessions \cup {s}
           /\ held' = [held EXCEPT ![cManager] = s]
           /\ cClient' = s
    /\ cPc' = "body"
    /\ UNCHANGED <<nonRemoteVars, error_history, cManager, cAttempt, cRaised, cReturned,
                   cErrors, cUses>>

\* an attempt raises: the except block of the loop
AttemptFail ==
    /\ cPc = "attempt"
    /\ \E stage \in Stages : \E e \in StageErrors(stage) :
          LET s == Session(cUses, cAttempt + 1, stage = "setup")
              opened == IF stage = "connect" THEN {} ELSE {s}
          IN  /\ error_history' =
                     AppendHistory(error_history, ConnectionContext(cManager, e, cAttempt))
              /\ sessions' = CleanUpFailed(sessions \cup opened,
                                           HeldInAttempt(cManager, held[cManager], s))
              /\ held' = [held EXCEPT ![cManager] = NoSession]
              /\ cErrors' = Append(cErrors, e)
    /\ cAttempt' = cAttempt + 1
    /\ cPc' = IF ManagerLoopContinues(cAttempt + 1) THEN "attempt" ELSE "after_loop"
    /\ UNCHANGED <<nonRemoteVars, cManager, cClient, cRaised, cReturned, cUses>>

\* "All attempts failed": the connection error is raised through the context
\* manager, whose "finally" finds client = None
ConnectGivesUp ==
    /\ cPc = "after_loop"
    /\ cManager \in Managers
    /\ cRaised' = ConnectionErrorOf(cManager)
    /\ cPc' = "left"
    /\ UNCHANGED <<nonRemoteVars, error_history, cManager, cAttempt, sessions, held,
                   cClient, cReturned, cErrors, cUses>>

\* the "with" body ends, normally or with an error; "finally: if client:
\* self._close_connection(client)"
LeaveBody(raised) ==
    /\ cPc = "body"
    /\ sessions' = sessions \ {cClient}
    /\ held' = [held EXCEPT ![cManager] = HeldAfterClose(cManager, @)]
    /\ cRaised' = raised
    /\ cPc' = "left"
    /\ UNCHANGED <<nonRemoteVars, error_history, cManager, cAttempt, cClient, cReturned,
                   cErrors, cUses>>

BodyReturns == LeaveBody(NoError)

BodyRaises == \E e \in BodyErrors : LeaveBody(e)

\* a caller enters _send_email(to_email, subject, body)
SendEmailStart ==
    /\ cPc = "idle"
    /\ cUses < MaxUses
    /\ cManager' = "smtp"
    /\ cPc' = IF EmailLoopContinues(0) THEN "send" ELSE "after_loop"
    /\ cAttempt' = 0
    /\ cRaised' = NoError
    /\ cReturned' = "none"
    /\ cErrors' = <<>>
    /\ cUses' = cUses + 1
    /\ UNCHANGED <<nonRemoteVars, error_history, sessions, held, cClient>>

\* the message is sent: "return True"
SendAttemptOk ==
    /\ cPc = "send"
    /\ cReturned' = "True"
    /\ cPc' = "left"
    /\ UNCHANGED <<nonRemoteVars, error_history, cManager, cAttempt, sessions, held,
                   cClient, cRaised, cErrors, cUses>>

\* "except (smtplib.SMTPException, ConnectionError, OSError)": reported with
\* the attempt number, and the loop goes on
SendAttemptFailRetried ==
    /\ cPc = "send"
    /\ error_history' =
           AppendHistory(error_history,
                         ErrorContext(ErrTimeout, "email_notification",
                                      LoopSeverity(cAttempt, EmailMaxRetries),
                                      "EmailNotifier", "send_email",
                                      cAttempt, EmailMaxRetries - 1))
    /\ cErrors' = Append(cErrors, ErrTimeout)
    /\ cAttempt' = cAttempt + 1
    /\ cPc' = IF EmailLoopContinues(cAttempt + 1) THEN "send" ELSE "after_loop"
    /\ UNCHANGED <<nonRemoteVars, cManager, sessions, held, cClient, cRaised, cReturned,
                   cUses>>

\* "except SMTPAuthenticationError", "except SMTPRecipientsRefused" and the
\* final "except Exception": reported without an attempt number, then "break"
SendAttemptFailBreaks ==
    /\ cPc = "send"
    /\ \E e \in {ErrSmtpAuth, ErrRefused, ErrUnexpected} :
          /\ error_history' =
                 AppendHistory(error_history,
                               ErrorContext(e, "email_notification", "high",
                                            "EmailNotifier", "send_email", 0, 0))
          /\ cErrors' = Append(cErrors, e)
    /\ cPc' = "after_loop"
    /\ UNCHANGED <<nonRemoteVars, cManager, cAttempt, sessions, held, cClient, cRaised,
                   cReturned, cUses>>

\* after the loop: "return False"
SendGivesUp ==
    /\ cPc = "after_loop"
    /\ cManager = "smtp"
    /\ cReturned' = "False"
    /\ cPc' = "left"
    /\ UNCHANGED <<nonRemoteVars, error_history, cManager, cAttempt, sessions, held,
                   cClient, cRaised, cErrors, cUses>>

\* The garbage collector frees a connection object nothing refers to any
\* more, which closes its socket: at a time of its choosing.
Finalize ==
    /\ \E s \in sessions :
          /\ s # cClient
          /\ \A m \in Managers : held[m] # s
          /\ sessions' = sessions \ {s}
    /\ UNCHANGED <<nonRemoteVars, error_history, cPc, cManager, cAttempt, held, cClient,
                   cRaised, cReturned, cErrors, cUses>>

\* the caller has the outcome
RemoteLeave ==
    /\ cPc = "left"
    /\ cPc' = "idle"
    /\ UNCHANGED <<nonRemoteVars, error_history, cManager, cAttempt, sessions, held,
                   cClient, cRaised, cReturned, cErrors, cUses>>

RemoteNext ==
    \/ Connect
    \/ AttemptOk
    \/ AttemptFail
    \/ ConnectGivesUp
    \/ BodyReturns
    \/ BodyRaises
    \/ SendEmailStart
    \/ SendAttemptOk
    \/ SendAttemptFailRetried
    \/ SendAttemptFailBreaks
    \/ SendGivesUp
    \/ Finalize
    \/ RemoteLeave

\* a single thread that uses execute_with_retry and the remote servers, one
\* call after the other, MaxUses calls in all
RecordNext ==
    \/ cPc = "idle" /\ RetryNext /\ rCalls' + cUses' <= MaxUses
    \/ rPc = "idle" /\ RemoteNext /\ rCalls' + cUses' <= MaxUses

(***************************************************************************)
(* The ErrorHandler object: handle_error as a whole (statistics, the       *)
(* persistent log error_context.jsonl, the history) and                    *)
(* cleanup_old_error_logs.                                                 *)
(*                                                                         *)
(* Time is counted in days.  An ErrorContext carries its timestamp and a   *)
(* serial number, which stands for the identity of the object: the n-th    *)
(* context this process has created.  A line of the log is the JSON text   *)
(* of a context, or a line that json.loads rejects.                        *)
(***************************************************************************)
MaxLogged == 2    \* handle_error calls made next to the cleanup calls
MaxVaried == 1    \* handle_error calls of one thread whose kind of error varies
MaxOver == 2      \* handle_error calls explored beyond the cap of the history
MaxDays == 2      \* days that pass in one behaviour
MaxOldLines == 1  \* lines the log holds when the process starts

\* an optional value: None, or the value it holds
None == <<>>
Some(v) == <<v>>

\* what the contexts of the model are made from
ErrorKinds ==
    {ErrorContext(ErrTimeout, "sftp_connection", "medium", "SFTPManager",
                  "establish_connection", 0, 2),
     ErrorContext(ErrNotFound, "sftp_file_operation", "medium", "TypeFolderScanner",
                  "scan_folder", 0, 0)}

FirstKind == CHOOSE k \in ErrorKinds : k.component = "SFTPManager"

\* the errors a call can be made with, after n earlier calls
KindsAfter(n) == IF n < MaxVaried THEN ErrorKinds ELSE {FirstKind}

\* "timestamp: datetime = field(default_factory=datetime.now)"
Stamped(context, now, serial) ==
    [f \in DOMAIN context \cup {"timestamp", "serial"} |->
        IF f = "timestamp" THEN now ELSE IF f = "serial" THEN serial ELSE context[f]]

\* error_key = f"{category}:{component}:{operation}"
ErrorKey(context) == <<context.category, context.component, context.operation>>

ErrorKeys == {ErrorKey(k) : k \in ErrorKinds}

\* datetime.isoformat() and datetime.fromisoformat()
IsoFormat(t) == <<"iso", t>>
FromIsoFormat(text) == text[2]

\* json.dumps(error_data): the line of a context
JsonLine(context) ==
    [json |-> TRUE, timestamp |-> IsoFormat(context.timestamp), serial |-> context.serial]

\* a line json.loads rejects: what a write cut short leaves behind
TornLine == [json |-> FALSE, timestamp |-> <<>>, serial |-> 0]

NoFile == [exists |-> FALSE, lines |-> <<>>]
File(lines) == [exists |-> TRUE, lines |-> lines]

\* open(path, 'a') and write: the file is created when it is missing
AppendLine(file, line) == File(Append(file.lines, line))

\* self.error_counts[error_key] = seen + 1
CountsAfter(counts, key, seen) == [counts EXCEPT ![key] = seen + 1]

\* "days_to_keep or config": an explicit 0 falls back to the configuration
RetentionDays_Falsy(days_to_keep, configured) ==
    IF days_to_keep # None /\ days_to_keep # Some(0) THEN days_to_keep[1] ELSE configured

\* "days_to_keep if days_to_keep is not None else
\*  self.retention_config.error_log_retention_days"
RetentionDays(days_to_keep, configured) ==
    IF days_to_keep # None THEN days_to_keep[1] ELSE configured

\* "if retention_days <= 0: ... return"
RetentionDisabled(retention_days) == retention_days <= 0

\* "[e for e in self.error_history if e.timestamp >= cutoff_time]"
PrunedHistory(history, cutoff) == SelectSeq(history, LAMBDA e : e.timestamp >= cutoff)

\* a copy that drops the entries stamped exactly at the cutoff
KeepsLine_DropsBoundary(line, cutoff) ==
    line.json /\ FromIsoFormat(line.timestamp) > cutoff

\* the body of "for line in infile": malformed lines are skipped
KeepsLine(line, cutoff) ==
    line.json /\ FromIsoFormat(line.timestamp) >= cutoff

\* the latest cleanup_old_error_logs call, and what held when it was made
NoCall == [outcome |-> "none"]
CleanupCall(days, retention_days, cutoff, outcome) ==
    [days |-> days, retention_days |-> retention_days, cutoff |-> cutoff,
     outcome |-> outcome, history_before |-> error_history, log_before |-> errorLog]

\* the files a process can find in its storage directory when it starts
OldLines == {TornLine, [json |-> TRUE, timestamp |-> IsoFormat(-1), serial |-> 0]}
OldLogs ==
    {NoFile} \cup {File(lines) : lines \in UNION {[1..n -> OldLines] : n \in 1..MaxOldLines}}

HandlerThreads == 1..2
IdleThread == [pc |-> "idle", context |-> NoContext, seen |-> 0]

HandlerInit ==
    /\ error_counts = [k \in ErrorKeys |-> 0]
    /\ last_error_times = [k \in ErrorKeys |-> None]
    /\ errorLog \in OldLogs
    /\ tmpLog = NoFile
    /\ clock = 0
    /\ hEnv \in [disk : {"ok", "full"}, error_log_retention_days : {0, 1}]
    /\ arrived = <<>>
    /\ hPc = "idle"
    /\ hIdx = 0
    /\ hCall = NoCall
    /\ hThreads = [t \in HandlerThreads |-> IdleThread]

\* _store_error_context: the line is appended, or the write raises and
\* "except Exception" swallows it
StoredLog(file, context, disk) ==
    IF disk = "ok" THEN AppendLine(file, JsonLine(context)) ELSE file

\* handle_error(error, category, ...) in a single thread
HandleError ==
    /\ hPc = "idle"
    /\ \A t \in HandlerThreads : hThreads[t].pc = "idle"
    /\ \E kind \in KindsAfter(Len(arrived)) :
          LET context == Stamped(kind, clock, Len(arrived) + 1)
              key == ErrorKey(context)
          IN  /\ error_counts' = CountsAfter(error_counts, key, error_counts[key])
              /\ last_error_times' = [last_error_times EXCEPT ![key] = Some(context.timestamp)]
              /\ errorLog' = StoredLog(errorLog, context, hEnv.disk)
              /\ error_history' = AppendHistory(error_history, context)
              /\ arrived' = Append(arrived, context)
    /\ hCall' = NoCall
    /\ UNCHANGED <<nonHandlerVars, tmpLog, clock, hEnv, hPc, hIdx, hThreads>>

\* a day passes
DayPasses ==
    /\ hPc = "idle"
    /\ clock < MaxDays
    /\ clock' = clock + 1
    /\ hCall' = NoCall
    /\ UNCHANGED <<nonHandlerVars, error_history, error_counts, last_error_times, errorLog,
                   tmpLog, hEnv, arrived, hPc, hIdx, hThreads>>

\* cleanup_old_error_logs(days_to_keep) up to the opening of the files
CleanupStart ==
    /\ hPc = "idle"
    /\ \A t \in HandlerThreads : hThreads[t].pc = "idle"
    /\ \E days_to_keep \in {None} \cup {Some(d) : d \in -1..1} :
          LET retention_days == RetentionDays(days_to_keep, hEnv.error_log_retention_days)
              cutoff_time == clock - retention_days
          IN  IF RetentionDisabled(retention_days)
              THEN /\ hCall' = CleanupCall(days_to_keep, retention_days, 0, "skipped")
                   /\ UNCHANGED <<error_history, hPc>>
              ELSE /\ error_history' = PrunedHistory(error_history, cutoff_time)
                   /\ IF errorLog.exists
                      THEN /\ hPc' = "open"
                           /\ hCall' = CleanupCall(days_to_keep, retention_days,
                                                   cutoff_time, "running")
                      ELSE /\ hPc' = "idle"
                           /\ hCall' = CleanupCall(days_to_keep, retention_days,
                                                   cutoff_time, "no_file")
    /\ UNCHANGED <<nonHandlerVars, error_counts, last_error_times, errorLog, tmpLog, clock,
                   hEnv, arrived, hIdx, hThreads>>

\* "open(self.error_log_file, 'r') ..., open(temp_file, 'w')": the temporary
\* file is created, or emptied when an earlier call left one behind
CleanupOpen ==
    /\ hPc = "open"
    /\ tmpLog' = File(<<>>)
    /\ hIdx' = 1
    /\ hPc' = "copy"
    /\ UNCHANGED <<nonHandlerVars, error_history, error_counts, last_error_times, errorLog,
                   clock, hEnv, arrived, hCall, hThreads>>

\* one iteration of "for line in infile"
CleanupCopyLine ==
    /\ hPc = "copy"
    /\ hIdx <= Len(errorLog.lines)
    /\ tmpLog' = IF KeepsLine(errorLog.lines[hIdx], hCall.cutoff)
                 THEN AppendLine(tmpLog, errorLog.lines[hIdx])
                 ELSE tmpLog
    /\ hIdx' = hIdx + 1
    /\ UNCHANGED <<nonHandlerVars, error_history, error_counts, last_error_times, errorLog,
                   clock, hEnv, arrived, hPc, hCall, hThreads>>

\* "temp_file.replace(self.error_log_file)": one rename
CleanupReplace ==
    /\ hPc = "copy"
    /\ hIdx > Len(errorLog.lines)
    /\ errorLog' = tmpLog
    /\ tmpLog' = NoFile
    /\ hPc' = "idle"
    /\ hIdx' = 0
    /\ hCall' = [hCall EXCEPT !.outcome = "pruned"]
    /\ UNCHANGED <<nonHandlerVars, error_history, error_counts, last_error_times, clock,
                   hEnv, arrived, hThreads>>

\* an open, a read, a write or the rename raises: "except Exception" logs a
\* warning and the call returns; the temporary file stays as it is
CleanupFails ==
    /\ hPc \in {"open", "copy"}
    /\ hPc' = "idle"
    /\ hIdx' = 0
    /\ hCall' = [hCall EXCEPT !.outcome = "failed"]
    /\ UNCHANGED <<nonHandlerVars, error_history, error_counts, last_error_times, errorLog,
                   tmpLog, clock, hEnv, arrived, hThreads>>

(***************************************************************************)
(* handle_error called from several threads.  The method takes no lock, so *)
(* a thread can be preempted between any two of its steps: the read and    *)
(* the write of "error_counts[key] = error_counts.get(key, 0) + 1", the    *)
(* append to the log, the append to the history and the check of its       *)
(* length.                                                                 *)
(***************************************************************************)
MaxCalls == 3     \* handle_error calls the threads make in one behaviour

\* "if len(self.error_history) > 1000: self.error_history.pop(0)"
Trimmed(history) == IF Len(history) > HistoryCap THEN Tail(history) ELSE history

handlerFrame == <<nonHandlerVars, tmpLog, clock, hEnv, hPc, hIdx, hCall>>

\* thread t enters handle_error: the ErrorContext is created
ThreadEnters(t) ==
    /\ hPc = "idle"
    /\ hThreads[t].pc = "idle"
    /\ Len(arrived) < MaxCalls
    /\ \E kind \in ErrorKinds :
          LET context == Stamped(kind, clock, Len(arrived) + 1)
          IN  /\ hThreads' = [hThreads EXCEPT ![t] = [pc |-> "read", context |-> context,
                                                      seen |-> 0]]
              /\ arrived' = Append(arrived, context)
    /\ UNCHANGED <<handlerFrame, error_history, error_counts, last_error_times, errorLog>>

\* _track_error_statistics: "self.error_counts.get(error_key, 0)"
ThreadReadsCount(t) ==
    /\ hThreads[t].pc = "read"
    /\ hThreads' = [hThreads EXCEPT ![t].pc = "write",
                                    ![t].seen = error_counts[ErrorKey(hThreads[t].context)]]
    /\ UNCHANGED <<handlerFrame, error_history, error_counts, last_error_times, errorLog,
                   arrived>>

\* _track_error_statistics: "self.error_counts[error_key] = ... + 1" and
\* "self.last_error_times[error_key] = context.timestamp"
ThreadWritesCount(t) ==
    /\ hThreads[t].pc = "write"
    /\ LET key == ErrorKey(hThreads[t].context)
       IN  /\ error_counts' = CountsAfter(error_counts, key, hThreads[t].seen)
           /\ last_error_times' =
                  [last_error_times EXCEPT ![key] = Some(hThreads[t].context.timestamp)]
    /\ hThreads' = [hThreads EXCEPT ![t].pc = "store"]
    /\ UNCHANGED <<handlerFrame, error_history, errorLog, arrived>>

\* _store_error_context
ThreadStores(t) ==
    /\ hThreads[t].pc = "store"
    /\ errorLog' = StoredLog(errorLog, hThreads[t].context, hEnv.disk)
    /\ hThreads' = [hThreads EXCEPT ![t].pc = "append"]
    /\ UNCHANGED <<handlerFrame, error_history, error_counts, last_error_times, arrived>>

\* "self.error_history.append(context)"
ThreadAppends(t) ==
    /\ hThreads[t].pc = "append"
    /\ error_history' = Append(error_history, hThreads[t].context)
    /\ hThreads' = [hThreads EXCEPT ![t].pc = "trim"]
    /\ UNCHANGED <<handlerFrame, error_counts, last_error_times, errorLog, arrived>>

\* the check of the length, and "return context"
ThreadTrims(t) ==
    /\ hThreads[t].pc = "trim"
    /\ error_history' = Trimmed(error_history)
    /\ hThreads' = [hThreads EXCEPT ![t] = IdleThread]
    /\ UNCHANGED <<handlerFrame, error_counts, last_error_times, errorLog, arrived>>

HistoryNext == HandleError /\ Len(arrived') <= HistoryCap + MaxOver

CleanupNext ==
    \/ HandleError /\ Len(arrived') <= MaxLogged
    \/ DayPasses
    \/ CleanupStart
    \/ CleanupOpen
    \/ CleanupCopyLine
    \/ CleanupReplace
    \/ CleanupFails

ConcurrentNext ==
    \E t \in HandlerThreads :
        \/ ThreadEnters(t)
        \/ ThreadReadsCount(t)
        \/ ThreadWritesCount(t)
        \/ ThreadStores(t)
        \/ ThreadAppends(t)
        \/ ThreadTrims(t)

(***************************************************************************)
(* ErrorHandler._calculate_retry_delay applied to a policy of the caller's *)
(* choice: a RetryConfig with any base delay, cap and backoff mode, an     *)
(* attempt number and a value of the jitter factor.                        *)
(***************************************************************************)
MaxDelayAttempt == 4   \* largest attempt number the function is given

NoDelayCall == [attempt |-> 0]

\* RetryConfig(base_delay=b, max_delay=m, exponential_backoff=e)
Policies ==
    {[RetryConfig(3, b) EXCEPT !.max_delay = m, !.exponential_backoff = e] :
        b \in {1000, 2000}, m \in {3000, 60000}, e \in BOOLEAN}

DelayInit == delayCall = NoDelayCall

\* "delay = self._calculate_retry_delay(attempt, retry_config)"
CalculateDelay ==
    /\ rPc = "idle"       \* the calling thread is not inside execute_with_retry
    /\ delayCall = NoDelayCall
    /\ \E config \in Policies, k \in 1..MaxDelayAttempt, j \in JitterFactors :
          delayCall' = [attempt |-> k, config |-> config, jitter |-> j,
                        delay |-> CalculateRetryDelay(k, config, j)]
    /\ UNCHANGED nonDelayVars

\* the function inside execute_with_retry, and then once on its own
DelayNext ==
    \/ delayCall = NoDelayCall /\ RetryNext
    \/ CalculateDelay

(***************************************************************************)
(* run_scheduled_processing, the job function main() gives the Scheduler:  *)
(* it runs a processing cycle of the global main_controller and logs a     *)
(* summary of what the cycle returned.                                     *)
(***************************************************************************)
\* the type of what run_processing_cycle returns; every return statement of
\* it returns a ProcessingStats
TypeOfResults == "ProcessingStats"

\* bool(x): an object of a class that defines neither __bool__ nor __len__
\* is true; an empty list is false
Truthy(type, empty) == IF type = "list" THEN ~empty ELSE TRUE

\* len(x) and "for r in x": defined for a list, not for a ProcessingStats
SupportsLen(type) == type = "list"

ErrTypeError ==
    [type |-> "TypeError",
     msg |-> <<"object", "of", "type", "ProcessingStats", "has", "no", "len()">>]

ErrNoController ==
    [type |-> "RuntimeError",
     msg |-> <<"Main", "controller", "not", "initialized">>]

\* the handle_error calls of run_scheduled_processing
ScheduledErrorContext(error, severity) ==
    ErrorContext(error, "system_resource", severity, "main", "scheduled_processing", 0, 0)

\* the scheduler calls the job: "if main_controller:", and the else branch
ScheduledProcessingStart ==
    /\ scheduled.pc = "idle"
    /\ pc = "start"
    /\ \E controller \in BOOLEAN :
          IF controller
          THEN /\ scheduled' = [scheduled EXCEPT !.pc = "cycle", !.controller = TRUE]
               /\ error_history' = error_history
          ELSE /\ scheduled' = [scheduled EXCEPT !.pc = "done", !.controller = FALSE]
               /\ error_history' =
                     AppendHistory(error_history,
                                   ScheduledErrorContext(ErrNoController, "critical"))
    /\ UNCHANGED <<retryVars, execVars, cycleVars, schedVars, remoteVars, handlerVars,
                   delayVars, mainPc>>

\* the steps of main_controller.run_processing_cycle()
ScheduledCycleStep ==
    /\ scheduled.pc = "cycle"
    /\ CycleNext

\* run_processing_cycle has returned: "if results:" and the summary, which
\* takes len(results) and iterates over results
ScheduledCycleReturned ==
    /\ scheduled.pc = "cycle"
    /\ pc = "returned"
    /\ scheduled' = [scheduled EXCEPT !.pc = "done", !.results = TypeOfResults]
    /\ error_history' =
          IF Truthy(TypeOfResults, FALSE) /\ ~SupportsLen(TypeOfResults)
          THEN AppendHistory(error_history, ScheduledErrorContext(ErrTypeError, "high"))
          ELSE error_history
    /\ UNCHANGED <<retryVars, execVars, cycleVars, schedVars, remoteVars, handlerVars,
                   delayVars, mainPc>>

\* run_processing_cycle has raised: "except Exception as e"
ScheduledCycleRaised ==
    /\ scheduled.pc = "cycle"
    /\ pc = "raised"
    /\ scheduled' = [scheduled EXCEPT !.pc = "done"]
    /\ error_history' = AppendHistory(error_history, ScheduledErrorContext(exc, "high"))
    /\ UNCHANGED <<retryVars, execVars, cycleVars, schedVars, remoteVars, handlerVars,
                   delayVars, mainPc>>

ScheduledNext ==
    \/ ScheduledProcessingStart
    \/ ScheduledCycleStep
    \/ ScheduledCycleReturned
    \/ ScheduledCycleRaised

(***************************************************************************)
(* Specifications.                                                         *)
(***************************************************************************)
\* an error handler in a fresh storage directory, retention disabled
HandlerIdle ==
    /\ HandlerInit
    /\ errorLog = NoFile
    /\ hEnv = [disk |-> "ok", error_log_retention_days |-> 0]

\* a scheduler that is constructed and never started
SchedIdle == SchedInit /\ sMode = "interval" /\ env.starts = 1

SpecRetryInit ==
    error_history = <<>> /\ RetryInit /\ ExecInit /\ CycleInit /\ SchedIdle /\ RemoteInit /\ DelayInit /\ MainAbsent /\ HandlerIdle
SpecRetry == SpecRetryInit /\ [][RetryNext]_vars

\* an executor constructed with a pool of any size up to the controller's
SpecExecInit ==
    error_history = <<>> /\ RetryInit /\ (\E w \in 1..max_workers : ExecConstructed(w)) /\ CycleInit /\ SchedIdle /\ RemoteInit /\ DelayInit /\ MainAbsent /\ HandlerIdle
SpecExec == SpecExecInit /\ [][ExecNext]_vars

SpecCycleInit ==
    error_history = <<>> /\ RetryInit /\ ExecInit /\ CycleInit /\ SchedIdle /\ RemoteInit /\ DelayInit /\ MainAbsent /\ HandlerIdle
SpecCycle == SpecCycleInit /\ [][CycleNext]_vars

\* one use of a remote server or of the mail server after the other
SpecRemoteInit ==
    error_history = <<>> /\ RetryInit /\ ExecInit /\ CycleInit /\ SchedIdle /\ RemoteInit /\ DelayInit /\ MainAbsent /\ HandlerIdle
SpecRemote == SpecRemoteInit /\ [][RemoteNext]_vars

\* every call site that records an attempt number, in one thread
SpecRecord == SpecRemoteInit /\ [][RecordNext]_vars

\* the other components at rest
AtRest == RetryInit /\ ExecInit /\ CycleInit /\ SchedIdle /\ RemoteInit /\ DelayInit /\ MainAbsent

\* handle_error called again and again by one thread, on a disk that takes writes
SpecHistoryInit ==
    error_history = <<>> /\ AtRest /\ HandlerInit /\ errorLog = NoFile /\ hEnv.disk = "ok"
SpecHistory == SpecHistoryInit /\ [][HistoryNext]_vars

\* one thread that records errors and cleans up, while days pass
SpecCleanupInit == error_history = <<>> /\ AtRest /\ HandlerInit
SpecCleanup == SpecCleanupInit /\ [][CleanupNext]_vars

\* several threads inside handle_error
SpecConcurrentInit == error_history = <<>> /\ AtRest /\ HandlerIdle
SpecConcurrent == SpecConcurrentInit /\ [][ConcurrentNext]_vars

\* the scheduler: its timer threads keep taking steps, a join in progress
\* returns, and time passes
SpecSchedInit ==
    error_history = <<>> /\ RetryInit /\ ExecInit /\ CycleInit /\ SchedInit /\ RemoteInit /\ DelayInit /\ MainAbsent /\ HandlerIdle
SpecSched ==
    /\ SpecSchedInit
    /\ [][SchedNext]_vars
    /\ WF_vars(TimerThread)
    /\ WF_vars(StopReturns)
    /\ WF_vars(Tick)

\* the backoff delay: as execute_with_retry computes it for the policies of
\* the handler, and for policies of any base delay and cap
SpecDelay == SpecRetryInit /\ [][DelayNext]_vars

\* main(): the scheduler is started by the main thread, which then runs the
\* initial cycle
SpecMainInit ==
    error_history = <<>> /\ RetryInit /\ ExecInit /\ CycleInit /\ SchedInit /\ RemoteInit /\ DelayInit /\ HandlerIdle /\ mainPc = "init" /\ scheduled = NotScheduled
SpecMain ==
    /\ SpecMainInit
    /\ [][MainNext]_vars
    /\ WF_vars(TimerThread)
    /\ WF_vars(StopReturns)
    /\ WF_vars(Tick)

\* a scheduler whose job can outlast the join of stop and which is started
\* again after the stop
SpecRestartInit ==
    error_history = <<>> /\ RetryInit /\ ExecInit /\ CycleInit /\ RemoteInit /\ DelayInit /\ MainAbsent /\ HandlerIdle
    /\ SchedIn({[job_ticks |-> MaxJobTicks, starts |-> MaxThreads]})
SpecRestart ==
    /\ SpecRestartInit
    /\ [][RestartNext]_vars
    /\ WF_vars(RestartThread)
    /\ WF_vars(StopReturns)
    /\ WF_vars(Tick)

\* one run of the scheduled job
SpecScheduled == SpecCycleInit /\ [][ScheduledNext]_vars

(***************************************************************************)
(* Properties of execute_with_retry.                                       *)
(***************************************************************************)
CallIndexes == {i \in 1..Len(rEvents) : rEvents[i].kind = "call"}
SleepIndexes == {i \in 1..Len(rEvents) : rEvents[i].kind = "sleep"}
NonRecoverableIndexes ==
    {i \in CallIndexes : ~rEvents[i].ok /\ ~rEvents[i].context.is_recoverable}

\* C2: for a category whose policy has max_attempts = N, execute_with_retry
\* invokes the operation at most N times, and every sleep is followed by
\* another invocation: a sleep is never the last thing the call does.
C2_AtMostMaxAttemptsNoSleepAfterLast ==
    /\ Cardinality(CallIndexes) <= retry_configs(rCategory).max_attempts
    /\ \A i \in SleepIndexes :
          IF i < Len(rEvents) THEN rEvents[i + 1].kind = "call" ELSE rPc = "invoke"

\* a call of the remote-connection category that used all 5 attempts, with
\* the 4 sleeps between them, and raised
C2_Witness ==
    /\ rPc = "raised"
    /\ rCategory = "sftp_connection"
    /\ Cardinality(CallIndexes) = 5
    /\ Cardinality(SleepIndexes) = 4

\* C3: once an attempt has failed with an ErrorContext that is not
\* recoverable, the call makes no further invocation and no further sleep,
\* does not return normally, and raises that attempt's error.
C3_NonRecoverableStopsImmediately ==
    \A i \in NonRecoverableIndexes :
        /\ i = Len(rEvents)
        /\ rPc \in {"after_loop", "raised", "idle"}
        /\ rPc \in {"raised", "idle"} =>
              /\ rRaised.type = rEvents[i].context.exception_type
              /\ rRaised.msg = rEvents[i].context.error_message

\* a remote-connection call whose second attempt failed with a
\* non-recoverable error: it raised with three attempts still unused
C3_Witness ==
    /\ rPc = "raised"
    /\ rCategory = "sftp_connection"
    /\ Cardinality(CallIndexes) = 2
    /\ NonRecoverableIndexes # {}
    /\ rRaised = ErrPermMsg

(***************************************************************************)
(* Properties of execute_parallel.                                         *)
(***************************************************************************)
ResultsNamed(results, name) ==
    {j \in 1..Len(results) : results[j].action_name = name}

\* C5: the list execute_parallel returns holds exactly one ActionResult per
\* action of the batch; an action whose function raised has success = FALSE
\* and the exception's message, and every action whose function returned has
\* success = TRUE, whatever the interleaving and whichever siblings failed.
C5_OneResultPerAction ==
    exPc = "returned" =>
        /\ Len(exResults) = Len(exActions)
        /\ \A i \in DOMAIN exActions :
              /\ Cardinality(ResultsNamed(exResults, exActions[i].name)) = 1
              /\ \A j \in ResultsNamed(exResults, exActions[i].name) :
                    /\ (exActions[i].has_function /\ fut[i].raised # NoError) =>
                          /\ ~exResults[j].success
                          /\ exResults[j].error_message = fut[i].raised.msg
                    /\ (exActions[i].has_function /\ fut[i].raised = NoError) =>
                          exResults[j].success

\* the batch A, B, C in which B alone raised: three results, B's failed
\* with B's message, A's and C's succeeded
C5_Witness ==
    /\ exPc = "returned"
    /\ Len(exActions) = 3
    /\ \A i \in 1..3 : exActions[i].has_function
    /\ fut[1].raised = NoError
    /\ fut[2].raised = ErrTimeout
    /\ fut[3].raised = NoError
    /\ Len(exResults) = 3
    /\ \E j \in 1..3 : exResults[j] = ActionResult("B", FALSE, ErrTimeout.msg)

(***************************************************************************)
(* Properties of run_processing_cycle.                                     *)
(***************************************************************************)
DownloadLoopDone == dlFolder > Len(TypeFolders)

\* the cycle is in, or has left through, its top-level exception handler
CycleFailing == pc \in {"except", "notify_failure", "reraise", "raised"}

FailedDownloads == {i \in 1..Len(download_results) : ~download_results[i].success}

\* the scanned files of type folder k whose modification date is the date
\* of the working directory, as (type folder, file name) pairs
DueInFolder(k) ==
    LET OfDate(file_info) == file_info.mtime = date_folder[2]
        due == SelectSeq(scan_results[k], OfDate)
    IN  [i \in 1..Len(due) |-> <<TypeFolders[k], due[i].filename>>]

RECURSIVE DueUpTo(_)
DueUpTo(k) == IF k = 0 THEN <<>> ELSE DueUpTo(k - 1) \o DueInFolder(k)

\* C6: when the download loop has run to its end, download_results holds,
\* in scan order, exactly one DownloadResult for every scanned file whose
\* modification date is the working directory's date and none for any
\* other file, whichever of the downloads failed; a failed one carries
\* success = FALSE and its error message.
C6_OneDownloadResultPerDueFile ==
    (DownloadLoopDone /\ pc = "download_check") =>
        /\ [i \in 1..Len(download_results) |->
               <<download_results[i].type_folder, download_results[i].filename>>]
              = DueUpTo(Len(TypeFolders))
        /\ \A i \in FailedDownloads : download_results[i].error_message = FTPSFileError.msg

\* the download of a file of type3 failed, and the file of type6 after it
\* was still attempted and downloaded
C6_Witness ==
    /\ DownloadLoopDone
    /\ pc = "download_check"
    /\ Len(download_results) = 2
    /\ download_results[1].type_folder = "type3"
    /\ ~download_results[1].success
    /\ download_results[2].type_folder = "type6"
    /\ download_results[2].success

\* C7: a cycle whose scan found no document file in any type folder returns
\* a ProcessingStats with no download, documents_processed = 0,
\* records_extracted = 0, upload_status "N/A - No files" and
\* email_sent = FALSE, and runs no download, extract, publish, notification
\* or archive phase.
C7_NoFilesReturnsEmptyStats ==
    (/\ pc \notin {"start", "scan"}
     /\ ~CycleFailing
     /\ \A k \in DOMAIN TypeFolders : scan_results[k] = <<>>) =>
        /\ pc \in {"scan_check", "returned"}
        /\ pc = "returned" =>
              /\ stats.date_folder = date_folder
              /\ stats.files_downloaded = <<>>
              /\ stats.documents_processed = 0
              /\ stats.records_extracted = 0
              /\ stats.upload_status = UploadStatus("N/A - No files", NoMessage)
              /\ stats.email_sent = FALSE
        /\ phases = {}
        /\ download_results = <<>>
        /\ csv = NoCsv
        /\ fut = <<>>
        /\ ~remoteCsv
        /\ emailRead = NoStats
        /\ backup = NotBackedUp

\* a scan in which the listing of one type folder failed and the other
\* folder held no document: the cycle has returned the empty stats
C7_Witness ==
    /\ pc = "returned"
    /\ \A k \in DOMAIN TypeFolders : scan_results[k] = <<>>
    /\ stats.upload_status.status = "N/A - No files"
    /\ Len(error_history) = 2

\* C8: a cycle whose download loop ended without one successful download
\* returns a ProcessingStats and raises nothing; the extract, publish,
\* notification and archive phases do not run.
C8_NoDownloadReturnsWithoutLaterPhases ==
    (DownloadLoopDone /\ pc # "download_check" /\ FailedDownloads = DOMAIN download_results) =>
        /\ pc = "returned"
        /\ exc = NoError
        /\ stats.date_folder = date_folder
        /\ phases = {"download"}
        /\ medical_records = <<>>
        /\ csv = NoCsv
        /\ fut = <<>>
        /\ ~remoteCsv
        /\ emailRead = NoStats
        /\ backup = NotBackedUp

\* both downloads of the cycle failed and the cycle has returned
C8_Witness ==
    /\ pc = "returned"
    /\ DownloadLoopDone
    /\ Len(download_results) = 2
    /\ FailedDownloads = {1, 2}
    /\ phases = {"download"}

\* C9: when the cycle has returned, every failed download of the cycle is
\* in the returned stats: as a DownloadResult of files_downloaded or as a
\* line of errors.
C9_EveryDownloadFailureInStats ==
    pc = "returned" =>
        \A i \in FailedDownloads :
            \/ \E j \in DOMAIN stats.files_downloaded :
                   stats.files_downloaded[j] = download_results[i]
            \/ \E j \in DOMAIN stats.errors :
                   stats.errors[j] = DownloadErrorLine(download_results[i])

ParsingFailures ==
    {i \in 1..Len(error_history) : error_history[i].category = "document_parsing"}

\* C10: when the extract phase has gone through every document file without
\* one record (every extraction raised and was skipped) and the CSV could be
\* written, the CSV exists with its header and no row, records_extracted is
\* 0, and the cycle is in or past its publish phase.
C10_AllExtractionsFailHeaderOnlyCsv ==
    (/\ "extract" \in phases
     /\ pc # "extract"
     /\ ~CycleFailing
     /\ medical_records = <<>>) =>
        /\ ParsingFailures # {}
        /\ csv.exists
        /\ csv.header
        /\ csv.rows = <<>>
        /\ stats.records_extracted = 0
        /\ "publish" \in phases

\* two documents, both extractions raised: the publish phase starts with
\* the header-only CSV
C10_Witness ==
    /\ pc = "publish"
    /\ Cardinality(ParsingFailures) = 2
    /\ medical_records = <<>>
    /\ csv = [exists |-> TRUE, header |-> TRUE, rows |-> <<>>]
    /\ stats.records_extracted = 0

\* C1: whenever send_email has been submitted to the executor, its batch
\* holds nothing else, both wave-1 actions have finished and their results
\* are collected in initial_results, and stats.upload_status and
\* stats.log_filename carry the values computed from those results; the
\* stats the notification reads are never the ones of before wave 1.
C1_EmailAfterWaveOneFolded ==
    /\ \A i \in DOMAIN fut :
          (/\ InExecuteParallel
           /\ exActions[i].name = "send_email"
           /\ fut[i].state # "unsubmitted") =>
              /\ Len(exActions) = 1
              /\ pc = "email_action"
              /\ Len(initial_results) = 2
              /\ Cardinality(ResultsNamed(initial_results, "upload_csv")) = 1
              /\ Cardinality(ResultsNamed(initial_results, "create_log")) = 1
              /\ stats.upload_status = GetUploadStatus(initial_results)
              /\ stats.upload_status.status \in {"SUCCESS", "FAILED"}
              /\ stats.log_filename \in GetLogFilenames(initial_results, logFiles)
    /\ emailRead # NoStats =>
          /\ emailRead.upload_status = GetUploadStatus(initial_results)
          /\ emailRead.log_filename \in GetLogFilenames(initial_results, logFiles)

\* the notification is running in its own batch after an upload that failed
\* and a log that was created: the stats it reads say so
C1_Witness ==
    /\ pc = "email_action"
    /\ Len(exActions) = 1
    /\ exActions[1].name = "send_email"
    /\ fut[1].state = "running"
    /\ stats.upload_status = UploadStatus("FAILED", SFTPFileError.msg)
    /\ stats.log_filename = "processing_log_new.txt"

(***************************************************************************)
(* Properties of the Scheduler.                                            *)
(***************************************************************************)
InJob == \E t \in ThreadIds : threads[t].pc = "job"

JobFailed == \E t \in ThreadIds : threads[t].pc = "after_job" /\ threads[t].outcome = "raised"

\* C4: a fire whose job raised does not end the scheduler loop.  As long as
\* stop has not been called, the timer thread is alive and is_running() is
\* true whatever the number of failed fires, and after a failed fire the job
\* is invoked again (or stop is called), in interval mode and in cron mode.
C4_FailingJobDoesNotStopScheduler ==
    /\ [](failures > 0 /\ ~stop_event => IsRunning)
    /\ (JobFailed /\ sMode = "interval") ~> (InJob \/ stop_event)
    /\ (JobFailed /\ sMode = "cron") ~> (InJob \/ stop_event)

\* in cron mode, the job is invoked again after three fires in a row raised
C4_Witness ==
    /\ sMode = "cron"
    /\ threads[1].pc = "job"
    /\ threads[1].outcome = "raised"
    /\ failures >= 3
    /\ IsRunning

CriticalContexts ==
    {i \in 1..Len(error_history) : error_history[i].operation = "run_processing_cycle"}

ConnectionErrors == {FTPSConnectionError, SFTPConnectionError}

\* C12: a cycle raises ProcessingError for a remote connection whose
\* attempts were exhausted only if that happened before the download phase
\* (workspace creation, scan); a connection failure of the download phase or
\* later is absorbed.
C12_ConnectionFailureFatalOnlyBeforeDownload ==
    (pc = "raised" /\ \E e \in ConnectionErrors : exc = ProcessingError(e)) =>
        "download" \notin phases

\* C13: when run_processing_cycle has returned or raised, the cycle has
\* written its log file into the working directory and has attempted an
\* outbound notification (the completion e-mail or the failure notice).
C13_EveryCycleLoggedAndNotified ==
    pc \in {"returned", "raised"} =>
        /\ "processing_log_new.txt" \in logFiles
        /\ emailOutcome # "none" \/ failureNotices # <<>>

\* C14: once the cycle has folded the action results into its stats,
\* stats.email_sent is TRUE only if the notification sender reported
\* success.
C14_EmailSentOnlyIfSenderSucceeded ==
    (pc \in {"backup", "returned"} /\ "archive" \in phases) =>
        (stats.email_sent => emailOutcome = "sent")

\* C15: a failure of the archive step is recorded with severity LOW and goes
\* no further: the cycle returns its ProcessingStats, raises nothing and sends
\* no failure notification; a successful archive step leaves a copy of the
\* working directory, whatever the location held before.
BackupContexts ==
    {i \in 1..Len(error_history) : error_history[i].operation = "backup_date_folder"}

C15_ReplacedWitness ==
    /\ pc = "returned"
    /\ backup = [prior |-> "old", now |-> "copy"]

\* C16: in interval mode the time from one fire to the next is the period,
\* up to the one second of the polling, however long the job runs.
C16_FiringCadenceIndependentOfJobDuration ==
    [][(sMode = "interval" /\ sinceFire > 0 /\ sinceFire' = 0) =>
          sinceFire <= poll_interval_seconds * TicksPerSec + PollTicks]_vars

\* a one-shot cron timer is pending in the job list
CronArmed == \E i \in DOMAIN jobs : jobs[i].tag = "cron_job"

\* C17: in cron mode, once the timer thread of a running scheduler has set
\* up, a cron timer is pending at every moment, and the step that ends a
\* fire leaves a timer armed for the next cron match, after a job that
\* returned and after a job that raised.
C17_CronAlwaysRearmed ==
    /\ []((sMode = "cron" /\ running /\ thread_ref # 0
              /\ threads[thread_ref].pc # "setup") => CronArmed)
    /\ [][\A t \in ThreadIds :
            (sMode = "cron" /\ running /\ threads[t].pc = "after_job"
                 /\ threads'[t].pc # "after_job") =>
               \E i \in DOMAIN jobs' :
                   /\ jobs'[i].tag = "cron_job"
                   /\ jobs'[i].due = (cronIn \div TicksPerSec) * TicksPerSec]_vars

\* the job of a fire raised, and the next cron timer is pending while the
\* timer thread waits
C17_Witness ==
    /\ sMode = "cron"
    /\ IsRunning
    /\ threads[thread_ref].pc = "wait"
    /\ threads[thread_ref].outcome = "raised"
    /\ CronArmed

\* what start and stop write
startStopVars == <<running, stop_event, thread_ref, threads, jobs, callPc>>

\* C18: the scheduler goes from idle to running by start and back by stop.
\* A start on a running scheduler and a stop on an idle one change nothing,
\* no timer thread is created while the scheduler runs, and is_running() is
\* true only if the latest call that changed something was a start.
C18_StartStopStateMachine ==
    /\ [](IsRunning => calls.change = "start")
    /\ [](running <=> calls.change = "start")
    /\ [][ThreadsCreated' # ThreadsCreated => ~running /\ running']_vars
    /\ [][calls'.change # calls.change =>
            \/ calls'.change = "start" /\ ~running /\ running'
            \/ calls'.change = "stop" /\ running /\ ~running']_vars
    /\ [][calls'.last = "start ignored" /\ calls.last # "start ignored" =>
            running /\ UNCHANGED startStopVars]_vars
    /\ [][calls'.last = "stop ignored" /\ calls.last # "stop ignored" =>
            ~running /\ UNCHANGED startStopVars]_vars

\* start, stop, start again, and one more start that is ignored: the
\* second timer thread is the only one alive
C18_Witness ==
    /\ calls = [last |-> "start ignored", change |-> "start"]
    /\ IsRunning
    /\ thread_ref = 2
    /\ ~IsAlive(1)

\* ticks the stop() in progress has spent in its join
JoinElapsed == JoinTimeoutTicks - joinLeft

\* C19: a stop() on a running scheduler returns within one polling interval
\* of the call.
C19_StopReturnsWithinOnePoll ==
    callPc = "joining" => JoinElapsed <= PollTicks

\* C20: a job invocation in flight is not cut short by stop(): every step
\* leaves a thread that is inside the job inside it, until the job itself
\* returns or raises, and the job does end, also when stop() is called and
\* returns in between.
C20_StopDoesNotInterruptJob ==
    /\ [][\A t \in ThreadIds :
            threads[t].pc = "job" =>
                \/ threads'[t].pc = "job" /\ threads'[t].ticks >= threads[t].ticks
                \/ threads'[t].pc = "after_job"]_vars
    /\ \A t \in ThreadIds : (threads[t].pc = "job") ~> (threads[t].pc = "after_job")

\* stop() was called while the job ran and has returned on the timeout of
\* its join; the job has gone on and has now ended by itself
C20_Witness ==
    /\ threads[1].pc = "after_job"
    /\ threads[1].ticks > JoinTimeoutTicks
    /\ ~running
    /\ callPc = "idle"
    /\ thread_ref = 0

(***************************************************************************)
(* Further properties of execute_with_retry.                               *)
(***************************************************************************)
OkIndexes == {i \in CallIndexes : rEvents[i].ok}

LastCallIndex == CHOOSE i \in CallIndexes : \A k \in CallIndexes : k <= i

\* C21: a call of execute_with_retry in which no attempt succeeded does not
\* return normally: it raises the error of the last attempt it made.  A call
\* in which an attempt succeeded returns that attempt's result, and the
\* successful invocation is the last one.
C21_RaisesLastErrorOrReturnsResult ==
    /\ \A i \in OkIndexes :
          /\ i = Len(rEvents)
          /\ rPc \in {"returned", "idle"}
          /\ rResult = rEvents[i].result
          /\ rRaised = NoError
    /\ rPc = "returned" => OkIndexes # {}
    /\ rPc = "raised" =>
          /\ OkIndexes = {}
          /\ CallIndexes # {}
          /\ rRaised.type = rEvents[LastCallIndex].context.exception_type
          /\ rRaised.msg = rEvents[LastCallIndex].context.error_message
    /\ (rPc = "idle" /\ rCalls > 0) => (OkIndexes # {} \/ rRaised # NoError)

\* a remote-connection call whose first two attempts timed out and whose
\* third attempt did not find the file: the call raised the third error
C21_Witness ==
    /\ rPc = "raised"
    /\ rCategory = "sftp_connection"
    /\ Cardinality(CallIndexes) = 3
    /\ rEvents[1].context.exception_type = "TimeoutError"
    /\ rRaised = ErrNotFound


(***************************************************************************)
(* Properties of the recorded ErrorContexts.                               *)
(***************************************************************************)
\* the contexts recorded with an attempt number of their own
RetriedContexts == {i \in 1..Len(error_history) : error_history[i].retry_count > 0}

\* C22: in every ErrorContext recorded, by execute_with_retry or by a loop
\* that calls handle_error itself (the FTPS and SFTP connection loops, the
\* e-mail sender), retry_count is at most max_attempts - 1 of the retry
\* policy of the context's category.
C22_RetryCountWithinPolicy ==
    \A i \in 1..Len(error_history) :
        error_history[i].retry_count
            <= retry_configs(error_history[i].category).max_attempts - 1

\* the e-mail sender has recorded its third attempt, the policy's last, after
\* execute_with_retry and a connection loop have recorded retries as well
C22_Witness ==
    /\ \E i \in RetriedContexts :
          /\ error_history[i].component = "EmailNotifier"
          /\ error_history[i].retry_count = 2
    /\ \E i \in RetriedContexts : error_history[i].component = "component"


(***************************************************************************)
(* Properties of the history and of the persistent log.                    *)
(***************************************************************************)
\* C23: after any sequence of handle_error calls the history holds at most
\* 1000 contexts, and they are the min(n, 1000) contexts recorded last, in
\* the order they were recorded: above the cap the oldest is the one evicted.
C23_HistoryIsLatestThousand ==
    LET n == Len(arrived)
        kept == Min(n, 1000)
    IN  /\ Len(error_history) <= 1000
        /\ error_history = SubSeq(arrived, n - kept + 1, n)

\* 1002 contexts have been recorded: the first two are gone
C23_Witness ==
    /\ Len(arrived) = 1002
    /\ Len(error_history) = 1000
    /\ error_history[1].serial = 3
    /\ arrived[1].component = "TypeFolderScanner"
    /\ error_history[1000] = arrived[1002]

\* the retention a cleanup call was made with: the argument, or the
\* configured value when the argument is None
RetentionAsked ==
    IF hCall.days # None THEN hCall.days[1] ELSE hEnv.error_log_retention_days

\* C24: a cleanup_old_error_logs call whose retention, passed or configured,
\* is zero or negative leaves the history and the persistent log as they were.
C24_NoRetentionNoCleanup ==
    (hCall # NoCall /\ RetentionAsked <= 0) =>
        /\ hPc = "idle"
        /\ error_history = hCall.history_before
        /\ errorLog = hCall.log_before

\* cleanup_old_error_logs(0) under a configured retention of one day, with
\* entries in the history and in the log that are two days old
C24_Witness ==
    /\ hCall # NoCall
    /\ hCall.days = Some(0)
    /\ hEnv.error_log_retention_days = 1
    /\ clock = 2
    /\ Len(error_history) = 2
    /\ error_history[1].timestamp = 0
    /\ Len(errorLog.lines) = 3

NotOlder(t, cutoff) == t >= cutoff

\* the well-formed lines of a log that are not older than the cutoff
EntriesKept(lines, cutoff) ==
    SelectSeq(lines, LAMBDA l : l.json /\ NotOlder(FromIsoFormat(l.timestamp), cutoff))

\* C25: a cleanup_old_error_logs call with a positive retention leaves in the
\* history exactly the contexts not older than the cutoff (now minus the
\* retention); at every step of the call, a failure midway included, the
\* persistent log holds its complete previous contents or its complete
\* pruned contents, and it holds the pruned contents when the call has
\* completed.
C25_PrunedAtomically ==
    (hCall # NoCall /\ RetentionAsked > 0) =>
        LET cutoff == clock - RetentionAsked
            pruned == File(EntriesKept(hCall.log_before.lines, cutoff))
        IN  /\ error_history =
                   SelectSeq(hCall.history_before, LAMBDA e : NotOlder(e.timestamp, cutoff))
            /\ errorLog \in {hCall.log_before, pruned}
            /\ hCall.outcome = "pruned" => errorLog = pruned
            /\ hCall.outcome \in {"running", "failed", "no_file"} =>
                   errorLog = hCall.log_before
            /\ hCall.outcome \in {"running", "failed", "no_file", "pruned"}
            /\ hPc # "idle" <=> hCall.outcome = "running"

\* a completed cleanup that dropped a malformed line and the line of the
\* older context, and kept the newer one
C25_Witness ==
    /\ hCall # NoCall
    /\ hCall.outcome = "pruned"
    /\ Len(hCall.history_before) = 2
    /\ Len(error_history) = 1
    /\ Len(hCall.log_before.lines) = 3
    /\ hCall.log_before.lines[1] = TornLine
    /\ Len(errorLog.lines) = 1
    /\ errorLog.lines[1].serial = 2

\* a cleanup that failed after it had copied a line: the log is as before,
\* the history is pruned, the temporary file is left behind
C25_FailureWitness ==
    /\ hCall # NoCall
    /\ hCall.outcome = "failed"
    /\ tmpLog.exists /\ Len(tmpLog.lines) = 1
    /\ Len(errorLog.lines) = 3
    /\ errorLog = hCall.log_before
    /\ Len(error_history) < Len(hCall.history_before)


(***************************************************************************)
(* Properties of the uses of a remote server.                              *)
(***************************************************************************)
\* the failed attempts of the current use whose error the handler classifies
\* as non-recoverable
NonRecoverableAttempts ==
    {i \in 1..Len(cErrors) : ~IsRecoverableError(cErrors[i], "sftp_connection")}

\* C26: a connection that cannot be established is attempted as often as the
\* retry policy of the remote-connection category says (5 times) before the
\* connection error is raised, unless an attempt fails with a non-recoverable
\* error, which is the last attempt made.
C26_ConnectionRetriedPerPolicy ==
    (cPc = "left" /\ cManager \in Managers /\ cRaised = ConnectionErrorOf(cManager)) =>
        IF NonRecoverableAttempts = {}
        THEN Len(cErrors) = retry_configs("sftp_connection").max_attempts
        ELSE NonRecoverableAttempts = {Len(cErrors)}


\* C27: when the block that uses a remote server has been left, by a return
\* or by an exception, no session of that use is open any more.
C27_NoSessionLeftOpen ==
    cPc \in {"left", "idle"} => \A s \in sessions : ~s.logged_in

\* the connection the context manager handed to its block is closed when the
\* block has been left
ClientReleased == cPc \in {"left", "idle"} => cClient \notin sessions


(***************************************************************************)
(* Properties of the ProcessingStats of a cycle.                           *)
(***************************************************************************)
\* C28: once the notification action has read the ProcessingStats of the
\* cycle, no field of it changes any more: for the rest of the cycle the
\* stats are the stats the notification was built from.
C28_StatsFrozenOnceRead == emailRead # NoStats => stats = emailRead


(***************************************************************************)
(* The first fire of the interval mode.                                    *)
(***************************************************************************)
\* the first start() of a scheduler in interval mode, not stopped since, whose
\* job has taken no time so far
FirstStartQuickJob ==
    /\ sMode = "interval"
    /\ started.ticks >= 0
    /\ ~started.slow
    /\ Cardinality(ThreadsCreated) = 1

\* C30: in interval mode, with a job that takes no time, the job has been
\* invoked exactly once when the interval and one second more have passed
\* since start(): not at all before the interval has passed, and not a
\* second time up to then.  (The interval is poll_interval_seconds; the
\* claim's case is an interval of 60 seconds and 61 seconds elapsed.)
C30_OneFireAfterIntervalPlusOne ==
    FirstStartQuickJob =>
        /\ started.ticks < poll_interval_seconds * TicksPerSec => started.fires = 0
        /\ started.ticks <= Horizon => started.fires <= 1
        /\ started.ticks = Horizon => started.fires = 1

\* the interval and one second have passed since start(); the job was
\* invoked once, when the interval had passed, and returned at once
C30_Witness ==
    /\ FirstStartQuickJob
    /\ started.ticks = Horizon
    /\ started.fires = 1
    /\ sinceFire = TicksPerSec
    /\ \A t \in ThreadIds : threads[t].pc # "job"


(***************************************************************************)
(* handle_error called from several threads.                               *)
(***************************************************************************)
\* the handle_error calls made so far with a key
CallsWith(key) == {i \in 1..Len(arrived) : ErrorKey(arrived[i]) = key}

NoThreadInside == \A t \in HandlerThreads : hThreads[t].pc = "idle"

\* every context recorded is in the history (the cap is not reached here)
AllInHistory ==
    NoThreadInside =>
        \A i \in 1..Len(arrived) : \E j \in 1..Len(error_history) : error_history[j] = arrived[i]

\* C29: when the concurrent handle_error calls have returned, no update is
\* lost: error_counts holds for every key the number of calls made with it,
\* and every context recorded is in the history.
C29_NoUpdateLost ==
    NoThreadInside =>
        /\ \A key \in ErrorKeys : error_counts[key] = Cardinality(CallsWith(key))
        /\ \A i \in 1..Len(arrived) :
              \E j \in 1..Len(error_history) : error_history[j] = arrived[i]

(***************************************************************************)
(* Properties of the recoverability rule and of the severity of attempts.  *)
(***************************************************************************)
\* C31: the is_recoverable flag of a recorded error is false if the category
\* is configuration or validation, or the exception type is one of the fixed
\* non-recoverable types, or the lower-cased message contains one of the
\* fixed non-recoverable patterns; in every other case it is true.  Two
\* recorded errors with the same category, type and message have the same flag.
C31_RecoverableByCategoryTypeMessage ==
    /\ \A i \in 1..Len(error_history) :
          LET c == error_history[i]
          IN  c.is_recoverable <=>
                 ~ \/ c.category \in {"configuration", "validation"}
                   \/ c.exception_type \in
                         {"FileNotFoundError", "PermissionError", "AuthenticationError",
                          "SMTPAuthenticationError", "SMTPRecipientsRefused",
                          "ValueError", "TypeError", "AttributeError"}
                   \/ \E p \in non_recoverable_patterns :
                         Contains(Lower(c.error_message), p)
    /\ \A i, k \in 1..Len(error_history) :
          (/\ error_history[i].category = error_history[k].category
           /\ error_history[i].exception_type = error_history[k].exception_type
           /\ error_history[i].error_message = error_history[k].error_message)
          => error_history[i].is_recoverable = error_history[k].is_recoverable

\* a recoverable timeout was recorded, and after it an error that is not
\* recoverable by its message alone: "Permission denied", written with a
\* capital, of a type and in a category that are retried
C31_Witness ==
    /\ Len(error_history) = 2
    /\ error_history[1].is_recoverable
    /\ error_history[1].exception_type = "TimeoutError"
    /\ ~error_history[2].is_recoverable
    /\ error_history[2].category = "sftp_file_operation"
    /\ error_history[2].exception_type = "FTPSConnectionError"
    /\ error_history[2].error_message = <<"Permission", "denied">>


\* the attempts of the call that were followed by another attempt
IntermediateIndexes == {i \in CallIndexes : \E k \in CallIndexes : k > i}

\* every intermediate attempt of execute_with_retry is recorded as low
IntermediateAttemptsLow ==
    \A i \in IntermediateIndexes : rEvents[i].context.severity = "low"

\* C32: in execute_with_retry, the ErrorContext of the final attempt made by
\* a failing operation is recorded with severity high or critical (always
\* critical for the configuration category), and the ErrorContext of every
\* intermediate attempt, one followed by another attempt, with severity low.
C32_FinalAttemptEscalated ==
    /\ IntermediateAttemptsLow
    /\ rPc = "raised" =>
          LET c == rEvents[LastCallIndex].context
          IN  /\ c.severity \in {"high", "critical"}
              /\ c.category = "configuration" => c.severity = "critical"


(***************************************************************************)
(* Properties of the backoff delay.                                        *)
(***************************************************************************)
\* delay is min(b * 2^k, m) scaled by a factor in [0.5, 1.0]
WithinBackoff(delay, config, k) ==
    LET full == Min(config.base_delay * Pow2(k), config.max_delay)
    IN  /\ delay <= config.max_delay
        /\ delay <= full
        /\ 2 * delay >= full

\* C33: for a retry policy with exponential backoff, base delay b and max
\* delay m, the sleep that precedes 0-indexed attempt k >= 1 of
\* execute_with_retry is min(b * 2^k, m) multiplied by a jitter factor in
\* [0.5, 1.0]: never above m and never below half of min(b * 2^k, m).
C33_BackoffCappedAndJittered ==
    /\ (delayCall # NoDelayCall /\ delayCall.config.exponential_backoff) =>
          WithinBackoff(delayCall.delay, delayCall.config, delayCall.attempt)
    /\ (rPc = "invoke" /\ SleepsBefore(attempt)) =>
          /\ rEvents[Len(rEvents)].kind = "sleep"
          /\ WithinBackoff(rDelay, retry_configs(rCategory), attempt)

\* execute_with_retry has slept four times for a remote connection, the
\* last time 16 s, half of 2 s * 2^4; and a policy whose cap binds (2 s * 2^2
\* = 8 s, capped at 3 s) gave 1.5 s with the smallest jitter factor
C33_Witness ==
    /\ rCategory = "sftp_connection"
    /\ Cardinality(SleepIndexes) = 4
    /\ rDelay = 16000
    /\ delayCall # NoDelayCall
    /\ delayCall.config.exponential_backoff
    /\ delayCall.config.base_delay = 2000
    /\ delayCall.config.max_delay = 3000
    /\ delayCall.attempt = 2
    /\ delayCall.delay = 1500


(***************************************************************************)
(* Properties of the worker pool of execute_parallel.                      *)
(***************************************************************************)
PendingFutures == {i \in DOMAIN fut : fut[i].state = "pending"}

\* C34: during execute_parallel at most max_workers actions of the batch are
\* executing at any instant, whatever the batch size; the actions beyond
\* that bound wait for a free worker, and execute_parallel returns only
\* after every submitted action has finished.
C34_AtMostMaxWorkersRunning ==
    /\ Cardinality(RunningFutures) <= exWorkers
    /\ exPc \in {"returned", "idle"} =>
          /\ RunningFutures = {}
          /\ PendingFutures = {}
          /\ \A i \in DOMAIN fut : fut[i].state \in {"collected", "nofunc"}

\* a pool of two workers and a batch of three actions with functions: two
\* are executing and the third waits for a free worker
C34_Witness ==
    /\ exWorkers = 2
    /\ Cardinality(RunningFutures) = 2
    /\ Cardinality(PendingFutures) = 1
    /\ exPc = "collecting"

\* the same call has returned, with the three results
C34_ReturnedWitness ==
    /\ exWorkers = 2
    /\ exPc = "returned"
    /\ Len(exResults) = 3
    /\ \A i \in DOMAIN fut : fut[i].state = "collected"


(***************************************************************************)
(* Properties of the processing cycles in flight.                          *)
(***************************************************************************)
\* the timer threads that are inside the job, a processing cycle
ThreadsInJob == {t \in ThreadIds : threads[t].pc = "job"}

\* C35: at most one processing cycle is in flight at any time: the initial
\* cycle that main() runs on the main thread after scheduler.start() and the
\* cycles fired by the scheduler's timer thread never overlap.
C35_InitialAndScheduledCyclesDisjoint ==
    ~(mainPc = "cycle" /\ ThreadsInJob # {})


(***************************************************************************)
(* Properties of the scheduler across stop() and start().                  *)
(***************************************************************************)
\* the timer threads that are in the scheduling loop with the loop condition
\* found true: polling the job list, or waiting for the next poll
PollingThreads == {t \in ThreadIds : threads[t].pc \in {"run_pending", "wait"}}

\* C36: at most one timer thread executes the scheduling loop at any time,
\* after any sequence of start() and stop(): when stop() returns because its
\* join timed out while a job was running and start() is called again, the
\* old thread does not go on looping next to the new one, and the job is
\* never run by two threads.
C36_OneLoopingThread ==
    /\ Cardinality(PollingThreads) <= 1
    /\ Cardinality(ThreadsInJob) <= 1

\* no two timer threads are inside the job at the same time
TwoThreadsNeverInJob == Cardinality(ThreadsInJob) <= 1


\* stop() has returned and start() has not been called since
Stopped == callPc = "idle" /\ ~running /\ calls.change = "stop"

\* while the scheduler is stopped no thread enters the job
NoInvocationWhileStopped ==
    [][(Stopped /\ Stopped') =>
          \A t \in ThreadIds : threads'[t].pc = "job" => threads[t].pc = "job"]_vars

\* a cron wrapper that finishes its job after stop() arms no cron timer
NoCronTimerWhileStopped == Stopped => \A i \in DOMAIN jobs : jobs[i].tag # "cron_job"

\* C37: after stop() has returned and until start() is called again, no new
\* job invocation begins and no timer, interval job or cron one-shot,
\* remains or becomes armed.
C37_NothingArmedWhileStopped ==
    [][/\ Stopped' => jobs' = <<>>
       /\ (Stopped /\ Stopped') =>
             \A t \in ThreadIds : threads'[t].pc = "job" => threads[t].pc = "job"]_vars


(***************************************************************************)
(* Properties of the cron timers.                                          *)
(***************************************************************************)
\* the invocations in progress that a further timer for the same cron
\* instant has fired
RepeatedInvocations ==
    {t \in ThreadIds : threads[t].pc = "job" /\ Head(threads[t].todo).nth > 1}

\* C38: in cron mode each cron instant triggers at most one job invocation:
\* the one-shot timer, armed with the delay truncated to whole seconds,
\* never fires so early that the wrapper arms a timer for the same cron
\* instant again, with a truncated delay of 0 seconds, and that timer runs
\* the job a second time for the instant.
C38_OneInvocationPerCronInstant ==
    RepeatedInvocations = {}


(***************************************************************************)
(* Properties of the scheduled job.                                        *)
(***************************************************************************)
\* the contexts run_scheduled_processing recorded itself
ScheduledContexts == {i \in 1..Len(error_history) : error_history[i].component = "main"}

\* C39: when a scheduled cycle completes normally (run_processing_cycle
\* returns a ProcessingStats and no phase recorded a failure),
\* run_scheduled_processing records no ErrorContext: it calls handle_error
\* only when the cycle raised or the controller is missing.
C39_NormalCycleRecordsNothing ==
    /\ (scheduled.pc = "done" /\ pc = "returned") => ScheduledContexts = {}
    /\ ScheduledContexts # {} => (pc = "raised" \/ ~scheduled.controller)


(***************************************************************************)
(* Properties of the records a cycle counts.                               *)
(***************************************************************************)
\* C40: the records aggregated and counted by a cycle come only from files
\* downloaded successfully in that same cycle: records_extracted never
\* exceeds the number of successful DownloadResults of the cycle, even when
\* earlier cycles of the same date left document files in the working
\* directory.
C40_RecordsOnlyFromThisCycle ==
    /\ Len(medical_records) <= SuccessfulDownloads(download_results)
    /\ stats # NoStats =>
          stats.records_extracted <= SuccessfulDownloads(stats.files_downloaded)


====
